---- MODULE Spec2Model ----
(***************************************************************************)
(* A model of the Gemini voice session of happy-app                        *)
(* (sources/realtime): GeminiVoiceSessionImpl, the audio capture and the   *)
(* audio player it owns, and the remote connection it opens.               *)
(*                                                                         *)
(* JavaScript runs one job at a time, so every action below is one         *)
(* synchronous run of the code: from a call or a callback to the next      *)
(* await (or to the return).  What happens between two awaits of one       *)
(* async function is what other actions can interleave with.               *)
(*                                                                         *)
(* Objects are numbered by the startSession call that created them: call   *)
(* k creates player k, capture k and connection k; 0 stands for null.      *)
(***************************************************************************)
EXTENDS Integers, Sequences, FiniteSets, TLC

\* ------------------------------------------------------------------ bounds

\* startSession calls in one run
MaxStarts == 1
\* function calls in one toolCall message
MaxCalls == 2
\* parts in one serverContent.modelTurn
MaxParts == 1
\* startRealtimeSession calls that reach startSession in one run of the registry
MaxRegistryStarts == 2
\* audio chunks a player holds that have not started playing
MaxQueue == 1
\* startRealtimeSession and stopRealtimeSession calls in one run of the registry
\* taken alone
MaxRegistryCalls == 2
\* paywall purchases that send one startRealtimeSession call round again
MaxPurchases == 1
\* poll ticks of one native capture that are in flight at the same time
MaxTicks == 2
\* recorders one native capture creates
MaxRecorders == 3
\* chunks given to play() of one native player
MaxChunks == 3
\* playNext bodies of one native player that can be in flight
MaxBodies == 2
\* samples in one input of resample
MaxInput == 4
\* sample rates given to resample, in units
MaxRate == 7
\* denominators of the samples given to the encoder
MaxDen == 3
\* samples posted to one playback processor
MaxPosted == 4
\* samples in one message posted to the playback processor
MaxIncoming == 2
\* length of the output block of one render period
MaxOutput == 3
\* render periods of one playback processor
MaxPeriods == 3
\* onError calls counted for one capture
MaxFaults == 2
\* TARGET_SAMPLE_RATE of the web capture, in samples per second.  The source
\* has 16000; the code uses rates only through their ratio and through
\* CHUNK_SIZE = floor(rate * 0.1), so the model counts in a unit that makes a
\* chunk a few samples long.
TARGET_SAMPLE_RATE == 20
\* a Float32 sample is written n / SampleDen
SampleDen == 4
\* samples in one block posted by the capture worklet processor
MaxBlock == 4
\* samples fed to one capture
MaxFed == 5

VARIABLES
    platform,      \* "web" | "native": which ./audio implementation is bundled
    apiKey,        \* settings.geminiApiKey is configured
    status,        \* storage realtimeStatus
    mode,          \* storage realtimeMode
    session,       \* this.session       (0 = null, k = connection k)
    audioCapture,  \* this.audioCapture  (0 = null, k = capture k)
    audioPlayer,   \* this.audioPlayer   (0 = null, k = player k)
    nCalls,        \* startSession calls made so far
    pc,            \* where each startSession call stands
    ctx,           \* config.initialContext was given to call k
    conn,          \* the remote connection of call k
    cap,           \* the AudioCapture object of call k
    player,        \* the AudioPlayer object of call k
    tool,          \* the handleToolCalls run of the latest toolCall message
    ended,         \* endSession has returned and startSession was not called since
    lastOp,        \* what the last step did on the wire (observation only)
    registry,      \* RealtimeSession.ts: voiceSession, voiceSessionStarted,
                   \* currentSessionId
    chunker,       \* web capture: the sample accumulator of start() and what
                   \* it was fed and has emitted
    recorder,      \* native capture: the recorders of one createAudioCapture,
                   \* its poll ticks in flight and the segments it has emitted
    processor,     \* web player: the PCMPlaybackProcessor, its port and what
                   \* it has rendered
    fileplayer,    \* native player: the closure of one createAudioPlayer, its
                   \* playNext bodies in flight and what has sounded
    calc           \* one application of a pure function: input and result

\* the state of the audio components taken one at a time
units == <<recorder, processor, fileplayer, calc>>

\* the session, its registry and the objects it owns
sessionVars == <<registry, chunker, platform, apiKey, status, mode, session,
                 audioCapture, audioPlayer, nCalls, pc, ctx, conn, cap, player,
                 tool, ended>>

vars == <<units, registry, chunker, platform, apiKey, status, mode, session,
          audioCapture, audioPlayer, nCalls, pc, ctx, conn, cap, player, tool,
          ended, lastOp>>

Calls == 1..MaxRegistryStarts

\* ------------------------------------------------------------ observation

Op(name) == [op |-> name, k |-> 0, sent |-> FALSE, live |-> FALSE,
             threw |-> FALSE, text |-> "", audio |-> 0, done |-> FALSE,
             played |-> 0]

\* ------------------------------------------------------- storage (status)

\* storage.getState().setRealtimeStatus(s)
setRealtimeStatus(s) == status' = s

\* storage.getState().setRealtimeMode(m, immediate)
setRealtimeMode(m, immediate) == mode' = m

\* ----------------------------------------------------------- AudioPlayer

NoPlayer == [pc |-> "none", actx |-> FALSE, worklet |-> FALSE, stopped |-> FALSE,
             queue |-> 0, phase |-> "idle", audible |-> FALSE, halted |-> FALSE]

\* createAudioPlayer() followed by the synchronous part of start()
PlayerStartCall(p) ==
    IF platform = "web"
    THEN [p EXCEPT !.pc = "starting", !.actx = TRUE]
    ELSE [p EXCEPT !.pc = "starting", !.stopped = FALSE, !.queue = 0]

\* start() after its await: the worklet node is built on the audio context
PlayerStartDone(p) ==
    IF platform = "web"
    THEN [p EXCEPT !.pc = "resolved", !.worklet = TRUE]
    ELSE [p EXCEPT !.pc = "resolved"]

\* stop().  web: the node is disconnected and the context closed, the
\* processor and its buffer go with it.  native: the queue is emptied and the
\* expo player, if there is one, paused; a playNext that is awaiting stays so.
PlayerStop(p) ==
    IF platform = "web"
    THEN [p EXCEPT !.actx = FALSE, !.worklet = FALSE, !.queue = 0, !.halted = TRUE]
    ELSE [p EXCEPT !.stopped = TRUE, !.queue = 0, !.audible = FALSE,
                   !.halted = TRUE]

\* play(chunk) is accepted (not ignored)
PlayerAccepts(p) ==
    IF platform = "web" THEN p.worklet ELSE p.pc # "none" /\ ~p.stopped

\* native playNext(), up to `await FileSystem.writeAsStringAsync`
playNext(p) ==
    IF p.stopped \/ p.phase # "idle" \/ p.queue = 0
    THEN p
    ELSE [p EXCEPT !.queue = @ - 1, !.phase = "writing"]

\* queue.push(chunk) / the processor appending to its buffer
Push(p) == [p EXCEPT !.queue = @ + 1]

\* no more than MaxQueue waiting chunks are told apart
Saturate(p) == [p EXCEPT !.queue = IF @ > MaxQueue THEN MaxQueue ELSE @]

\* play(base64PCM)
PlayerPlay(p) ==
    IF ~PlayerAccepts(p) THEN p
    ELSE IF platform = "web" THEN Saturate(Push(p))
    ELSE Saturate(playNext(Push(p)))

\* play called n times in a row
RECURSIVE PlayTimes(_, _)
PlayTimes(p, n) == IF n = 0 THEN p ELSE PlayTimes(PlayerPlay(p), n - 1)

\* player p holds audio that has not finished playing
PlayerHoldsAudio(p) == p.queue > 0 \/ p.phase # "idle"

\* the output sink of player k is held
SinkOpen(k) ==
    IF platform = "web"
    THEN player[k].actx
    ELSE (player[k].pc # "none" /\ ~player[k].stopped) \/ player[k].audible

\* native playNext: the temp file is written; a new expo player is created on
\* it and play() called.  Nothing here looks at `stopped`.
NativeWriteDone(k) ==
    /\ platform = "native"
    /\ player[k].phase = "writing"
    /\ player' = [player EXCEPT ![k].phase = "sounding", ![k].audible = TRUE]
    /\ lastOp' = [Op("playStart") EXCEPT !.k = k]
    /\ UNCHANGED <<registry, chunker, units, platform, apiKey, status, mode, session,
                   audioCapture, audioPlayer, nCalls, pc, ctx, conn, cap, tool,
                   ended>>

\* native playNext: the 50 ms check finds the player gone or no longer
\* playing; the temp file is deleted, playing = false, playNext()
NativePlaybackEnds(k) ==
    /\ platform = "native"
    /\ player[k].phase = "sounding"
    /\ player' = [player EXCEPT
                     ![k] = playNext([@ EXCEPT !.phase = "idle", !.audible = FALSE])]
    /\ lastOp' = Op("other")
    /\ UNCHANGED <<registry, chunker, units, platform, apiKey, status, mode, session,
                   audioCapture, audioPlayer, nCalls, pc, ctx, conn, cap, tool,
                   ended>>

\* web PCMPlaybackProcessor.process: the buffered samples of a chunk are
\* written to the output
WebProcessorDrains(k) ==
    /\ platform = "web"
    /\ player[k].worklet
    /\ player[k].queue > 0
    /\ player' = [player EXCEPT ![k].queue = @ - 1]
    /\ lastOp' = [Op("playStart") EXCEPT !.k = k]
    /\ UNCHANGED <<registry, chunker, units, platform, apiKey, status, mode, session,
                   audioCapture, audioPlayer, nCalls, pc, ctx, conn, cap, tool,
                   ended>>

\* ---------------------------------------------------------- AudioCapture

NoCapture == [pc |-> "none", stream |-> FALSE, actx |-> FALSE, worklet |-> FALSE,
              stopped |-> FALSE, recording |-> FALSE, active |-> FALSE,
              poll |-> FALSE, tick |-> "idle",
              \* history: stop() was called, onError calls made by poll
              \* ticks, acquiring the microphone failed in start()
              halted |-> FALSE, errs |-> 0, micFailed |-> FALSE]

\* createAudioCapture(options) followed by the synchronous part of start()
CaptureStartCall(c) ==
    IF platform = "web"
    THEN [c EXCEPT !.pc = "getUserMedia"]
    ELSE [c EXCEPT !.pc = "setAudioMode", !.stopped = FALSE]

\* a stop() that does nothing
CaptureStop_Noop(c) == c

\* stop()
CaptureStop(c) ==
    IF platform = "web"
    THEN [c EXCEPT !.stream = FALSE, !.actx = FALSE, !.worklet = FALSE,
                   !.halted = TRUE]
    ELSE [c EXCEPT !.stopped = TRUE, !.poll = FALSE,
                   !.recording = FALSE, !.active = FALSE, !.halted = TRUE]

\* the microphone is held by capture k
MicOpen(k) == IF platform = "web" THEN cap[k].stream ELSE cap[k].active

\* capture k produces audio: the web worklet node is connected, the native
\* poll interval is set and its tick passes `if (stopped || !recording) return`
CaptureEmits(k) ==
    IF platform = "web"
    THEN cap[k].worklet
    ELSE cap[k].poll /\ ~cap[k].stopped /\ cap[k].recording

\* ------------------------------------------------- settings (voice.tsx)

\* the API key field of the voice settings screen is edited
SetGeminiApiKey(v) ==
    /\ apiKey # v
    /\ apiKey' = v
    /\ lastOp' = Op("other")
    /\ UNCHANGED <<registry, chunker, units, platform, status, mode, session, audioCapture, audioPlayer,
                   nCalls, pc, ctx, conn, cap, player, tool, ended>>

\* ----------------------------------------- GeminiVoiceSessionImpl: start

\* the key check left out: startSession goes on without a key
ApiKeyMissing_Never == FALSE

\* if (!apiKey)
ApiKeyMissing == ~apiKey

\* startSession(config), up to `await this.audioPlayer.start()`
StartSessionRun(c) ==
    /\ nCalls' = nCalls + 1
    /\ ctx' = [ctx EXCEPT ![nCalls + 1] = c]
    /\ ended' = FALSE
    /\ lastOp' = Op("startSession")
    /\ IF ApiKeyMissing
       THEN /\ setRealtimeStatus("error")
            /\ pc' = [pc EXCEPT ![nCalls + 1] = "threwNoKey"]
            /\ UNCHANGED <<audioPlayer, player>>
       ELSE /\ setRealtimeStatus("connecting")
            /\ audioPlayer' = nCalls + 1
            /\ player' = [player EXCEPT ![nCalls + 1] = PlayerStartCall(@)]
            /\ pc' = [pc EXCEPT ![nCalls + 1] = "awaitPlayerStart"]
    /\ UNCHANGED <<chunker, units, platform, apiKey, mode, session, audioCapture, conn,
                   cap, tool>>

\* startSession called on the session object directly
StartSession(c) ==
    /\ nCalls < MaxStarts
    /\ StartSessionRun(c)
    /\ UNCHANGED registry

\* audioPlayer.start() resolves; startSession creates the capture and awaits
\* its start().  A web player stopped during the await has no audio context
\* left to build its worklet node on: start() rejects instead.
PlayerStartResolve(k) ==
    /\ pc[k] = "awaitPlayerStart"
    /\ lastOp' = Op("other")
    /\ IF platform = "web" /\ ~player[k].actx
       THEN /\ player' = [player EXCEPT ![k].pc = "rejected"]
            /\ pc' = [pc EXCEPT ![k] = "threwPlayer"]
            /\ UNCHANGED <<audioCapture, cap>>
       ELSE /\ player' = [player EXCEPT ![k] = PlayerStartDone(@)]
            /\ audioCapture' = k
            /\ cap' = [cap EXCEPT ![k] = CaptureStartCall(@)]
            /\ pc' = [pc EXCEPT ![k] = "awaitCaptureStart"]
    /\ UNCHANGED <<registry, chunker, units, platform, apiKey, status, mode, session, audioPlayer,
                   nCalls, ctx, conn, tool, ended>>

\* audioPlayer.start() rejects: startSession has no handler around it
PlayerStartReject(k) ==
    /\ pc[k] = "awaitPlayerStart"
    /\ player' = [player EXCEPT ![k].pc = "rejected"]
    /\ pc' = [pc EXCEPT ![k] = "threwPlayer"]
    /\ lastOp' = Op("other")
    /\ UNCHANGED <<registry, chunker, units, platform, apiKey, status, mode, session, audioCapture,
                   audioPlayer, nCalls, ctx, conn, cap, tool, ended>>

\* audioCapture.start() resolved: startSession goes on to ai.live.connect
SessionConnect(k) ==
    /\ conn' = [conn EXCEPT ![k] = "connecting"]
    /\ pc' = [pc EXCEPT ![k] = "awaitConnect"]

\* catch around `await this.audioCapture.start()`
CaptureStartCatch(k) ==
    IF audioPlayer = 0
    THEN /\ pc' = [pc EXCEPT ![k] = "threwTypeError"]
         /\ UNCHANGED <<player, status>>
    ELSE /\ player' = [player EXCEPT ![audioPlayer] = PlayerStop(@)]
         /\ setRealtimeStatus("error")
         /\ pc' = [pc EXCEPT ![k] = "threwCapture"]

\* web capture: getUserMedia resolves, the stream is held and the audio
\* context created; start() awaits audioWorklet.addModule
WebGetUserMediaOk(k) ==
    /\ platform = "web"
    /\ cap[k].pc = "getUserMedia"
    /\ cap' = [cap EXCEPT ![k].pc = "addModule", ![k].stream = TRUE, ![k].actx = TRUE]
    /\ lastOp' = Op("other")
    /\ UNCHANGED <<registry, chunker, units, platform, apiKey, status, mode, session, audioCapture,
                   audioPlayer, nCalls, pc, ctx, conn, player, tool, ended>>

\* web capture: getUserMedia rejects, so does start()
WebGetUserMediaFail(k) ==
    /\ platform = "web"
    /\ cap[k].pc = "getUserMedia"
    /\ cap' = [cap EXCEPT ![k].pc = "rejected", ![k].micFailed = TRUE]
    /\ CaptureStartCatch(k)
    /\ lastOp' = Op("other")
    /\ UNCHANGED <<registry, chunker, units, platform, apiKey, mode, session, audioCapture, audioPlayer,
                   nCalls, ctx, conn, tool, ended>>

\* web capture: addModule resolves, the nodes are built and connected.  With
\* the audio context nulled by a stop() during the await, building them throws.
WebAddModuleOk(k) ==
    /\ platform = "web"
    /\ cap[k].pc = "addModule"
    /\ lastOp' = Op("other")
    /\ IF cap[k].actx
       THEN /\ cap' = [cap EXCEPT ![k].pc = "resolved", ![k].worklet = TRUE]
            /\ SessionConnect(k)
            /\ UNCHANGED <<player, status>>
       ELSE /\ cap' = [cap EXCEPT ![k].pc = "rejected"]
            /\ CaptureStartCatch(k)
            /\ UNCHANGED conn
    /\ UNCHANGED <<registry, chunker, units, platform, apiKey, mode, session, audioCapture, audioPlayer,
                   nCalls, ctx, tool, ended>>

\* web capture: addModule rejects for the blob URL and for the data URL
WebAddModuleFail(k) ==
    /\ platform = "web"
    /\ cap[k].pc = "addModule"
    /\ cap' = [cap EXCEPT ![k].pc = "rejected"]
    /\ CaptureStartCatch(k)
    /\ lastOp' = Op("other")
    /\ UNCHANGED <<registry, chunker, units, platform, apiKey, mode, session, audioCapture, audioPlayer,
                   nCalls, ctx, conn, tool, ended>>

\* native capture: setAudioModeAsync resolves and startRecordingCycle runs up
\* to `await recording.prepareToRecordAsync()`, or returns at once if stopped
NativeSetAudioModeOk(k) ==
    /\ platform = "native"
    /\ cap[k].pc = "setAudioMode"
    /\ lastOp' = Op("other")
    /\ IF cap[k].stopped
       THEN /\ cap' = [cap EXCEPT ![k].pc = "resolved"]
            /\ SessionConnect(k)
       ELSE /\ cap' = [cap EXCEPT ![k].pc = "prepare", ![k].recording = TRUE]
            /\ UNCHANGED <<conn, pc>>
    /\ UNCHANGED <<registry, chunker, units, platform, apiKey, status, mode, session, audioCapture,
                   audioPlayer, nCalls, ctx, player, tool, ended>>

\* native capture: setAudioModeAsync rejects, so does start()
NativeSetAudioModeFail(k) ==
    /\ platform = "native"
    /\ cap[k].pc = "setAudioMode"
    /\ cap' = [cap EXCEPT ![k].pc = "rejected"]
    /\ CaptureStartCatch(k)
    /\ lastOp' = Op("other")
    /\ UNCHANGED <<registry, chunker, units, platform, apiKey, mode, session, audioCapture, audioPlayer,
                   nCalls, ctx, conn, tool, ended>>

\* native capture: prepareToRecordAsync resolves; record() and setInterval.
\* With `recording` nulled by a stop() during the await, record() throws, the
\* catch of startRecordingCycle calls onError, and start() still resolves.
NativePrepareOk(k) ==
    /\ platform = "native"
    /\ cap[k].pc = "prepare"
    /\ lastOp' = IF cap[k].recording THEN Op("other")
                 ELSE [Op("onError") EXCEPT !.k = k]
    /\ IF cap[k].recording
       THEN /\ cap' = [cap EXCEPT ![k].pc = "resolved", ![k].active = TRUE,
                                  ![k].poll = TRUE]
            /\ UNCHANGED status
       ELSE /\ cap' = [cap EXCEPT ![k].pc = "resolved"]
            /\ setRealtimeStatus("error")
    /\ SessionConnect(k)
    /\ UNCHANGED <<registry, chunker, units, platform, apiKey, mode, session, audioCapture, audioPlayer,
                   nCalls, ctx, player, tool, ended>>

\* native capture: prepareToRecordAsync rejects; the catch of
\* startRecordingCycle calls onError and start() resolves
NativePrepareFail(k) ==
    /\ platform = "native"
    /\ cap[k].pc = "prepare"
    /\ cap' = [cap EXCEPT ![k].pc = "resolved", ![k].micFailed = TRUE]
    /\ setRealtimeStatus("error")
    /\ SessionConnect(k)
    /\ lastOp' = [Op("onError") EXCEPT !.k = k]
    /\ UNCHANGED <<registry, chunker, units, platform, apiKey, mode, session, audioCapture, audioPlayer,
                   nCalls, ctx, player, tool, ended>>

\* --------------------------------------------------- remote connection

\* catch around ai.live.connect and the initial sendClientContent; st is the
\* status published when the catch is entered.  this.audioCapture.stop() and
\* this.audioPlayer.stop() throw a TypeError on a field that is null.
ConnectCatch(k, st) ==
    IF audioCapture = 0
    THEN /\ pc' = [pc EXCEPT ![k] = "threwTypeError"]
         /\ status' = st
         /\ UNCHANGED <<cap, player>>
    ELSE /\ cap' = [cap EXCEPT ![audioCapture] = CaptureStop(@)]
         /\ IF audioPlayer = 0
            THEN /\ pc' = [pc EXCEPT ![k] = "threwTypeError"]
                 /\ status' = st
                 /\ UNCHANGED player
            ELSE /\ player' = [player EXCEPT ![audioPlayer] = PlayerStop(@)]
                 /\ setRealtimeStatus("error")
                 /\ pc' = [pc EXCEPT ![k] = "threwConnect"]

\* The transport opens connection k: the onopen callback runs and
\* ai.live.connect resolves in the same turn; startSession stores the handle,
\* sends the initial context if one was given, and returns.
ConnectOpen(k) ==
    /\ pc[k] = "awaitConnect"
    /\ conn[k] = "connecting"
    /\ conn' = [conn EXCEPT ![k] = "open"]
    /\ session' = k
    /\ setRealtimeStatus("connected")
    /\ setRealtimeMode("idle", FALSE)
    /\ pc' = [pc EXCEPT ![k] = "returned"]
    /\ lastOp' = [Op("connect") EXCEPT !.sent = ctx[k], !.live = ctx[k],
                     !.text = IF ctx[k] THEN "[CONTEXT UPDATE] ctx" ELSE ""]
    /\ UNCHANGED <<registry, chunker, units, platform, apiKey, audioCapture, audioPlayer, nCalls, ctx,
                   cap, player, tool, ended>>

\* As ConnectOpen, but the initial sendClientContent throws: the catch runs
\* after onopen has published 'connected' and the handle has been stored.
ConnectOpenSendThrows(k) ==
    /\ pc[k] = "awaitConnect"
    /\ conn[k] = "connecting"
    /\ ctx[k]
    /\ conn' = [conn EXCEPT ![k] = "open"]
    /\ session' = k
    /\ setRealtimeMode("idle", FALSE)
    /\ ConnectCatch(k, "connected")
    /\ lastOp' = [Op("connect") EXCEPT !.sent = TRUE, !.live = TRUE, !.threw = TRUE,
                     !.text = "[CONTEXT UPDATE] ctx"]
    /\ UNCHANGED <<registry, chunker, units, platform, apiKey, audioCapture, audioPlayer, nCalls, ctx,
                   tool, ended>>

\* ai.live.connect rejects: connection k never opens
ConnectReject(k) ==
    /\ pc[k] = "awaitConnect"
    /\ conn[k] = "connecting"
    /\ conn' = [conn EXCEPT ![k] = "closed"]
    /\ ConnectCatch(k, status)
    /\ lastOp' = Op("other")
    /\ UNCHANGED <<registry, chunker, units, platform, apiKey, mode, session, audioCapture, audioPlayer,
                   nCalls, ctx, tool, ended>>

\* an onerror that also drops the connection handle
ConnError_Teardown(k) ==
    /\ conn[k] \in {"connecting", "open", "closing"}
    /\ setRealtimeStatus("error")
    /\ session' = 0
    /\ lastOp' = [Op("onerror") EXCEPT !.k = k]
    /\ UNCHANGED <<registry, chunker, units, platform, apiKey, mode, audioCapture,
                   audioPlayer, nCalls, pc, ctx, conn, cap, player, tool, ended>>

\* callbacks.onerror of connection k
ConnError(k) ==
    /\ conn[k] \in {"connecting", "open", "closing"}
    /\ setRealtimeStatus("error")
    /\ lastOp' = [Op("onerror") EXCEPT !.k = k]
    /\ UNCHANGED <<registry, chunker, units, platform, apiKey, mode, session, audioCapture, audioPlayer,
                   nCalls, pc, ctx, conn, cap, player, tool, ended>>

\* The transport closes connection k (the remote end dropped it, or the close
\* requested by session.close() completed): callbacks.onclose
ConnClose(k) ==
    /\ conn[k] \in {"open", "closing"}
    /\ conn' = [conn EXCEPT ![k] = "closed"]
    /\ setRealtimeStatus("disconnected")
    /\ setRealtimeMode("idle", TRUE)
    /\ lastOp' = Op("onclose")
    /\ UNCHANGED <<registry, chunker, units, platform, apiKey, session, audioCapture, audioPlayer,
                   nCalls, pc, ctx, cap, player, tool, ended>>

\* ------------------------------------------- GeminiVoiceSessionImpl: end

\* endSession(); closeThrows: this.session.close() throws (it is caught)
EndSessionRun(closeThrows) ==
    /\ closeThrows => session # 0
    /\ conn' = IF session # 0 /\ conn[session] = "open" /\ ~closeThrows
               THEN [conn EXCEPT ![session] = "closing"]
               ELSE conn
    /\ cap' = IF audioCapture # 0
              THEN [cap EXCEPT ![audioCapture] = CaptureStop(@)]
              ELSE cap
    /\ player' = IF audioPlayer # 0
                 THEN [player EXCEPT ![audioPlayer] = PlayerStop(@)]
                 ELSE player
    /\ session' = 0
    /\ audioCapture' = 0
    /\ audioPlayer' = 0
    /\ setRealtimeStatus("disconnected")
    /\ setRealtimeMode("idle", TRUE)
    /\ ended' = TRUE
    /\ lastOp' = [Op("endSession") EXCEPT !.threw = closeThrows]
    /\ UNCHANGED <<chunker, units, platform, apiKey, nCalls, pc, ctx, tool>>

\* endSession called on the session object directly
EndSession(closeThrows) ==
    /\ EndSessionRun(closeThrows)
    /\ UNCHANGED registry

\* ------------------------------------- session registry (RealtimeSession)

\* the value null of currentSessionId, apart from every string a caller passes
Null == "null"

\* the sessionId a caller passes: any string, the empty one included
SessionIds == {"", "sessionId"}

\* inflight: the startRealtimeSession and stopRealtimeSession calls made on a
\* registry taken alone, each with the await it stands at
NoRegistry == [voiceSession |-> FALSE, voiceSessionStarted |-> FALSE,
               currentSessionId |-> Null, inflight |-> <<>>]

\* `currentSessionId = sessionId; voiceSessionStarted = true`
SetStarted(r, id) ==
    [r EXCEPT !.voiceSessionStarted = TRUE, !.currentSessionId = id]

\* the flag reset, the id kept
ResetStarted_FlagOnly(r) == [r EXCEPT !.voiceSessionStarted = FALSE]

\* `currentSessionId = null; voiceSessionStarted = false`
ResetStarted(r) ==
    [r EXCEPT !.voiceSessionStarted = FALSE, !.currentSessionId = Null]

\* registerVoiceSession(session): the GeminiVoiceSession component registers
\* its GeminiVoiceSessionImpl; a session already registered is replaced
registerVoiceSession ==
    /\ registry' = [registry EXCEPT !.voiceSession = TRUE]
    /\ lastOp' = Op("registerVoiceSession")
    /\ UNCHANGED <<chunker, units, platform, apiKey, status, mode, session,
                   audioCapture, audioPlayer, nCalls, pc, ctx, conn, cap, player,
                   tool, ended>>

\* startRealtimeSession(sessionId, initialContext) with the gemini engine, the
\* microphone permission granted and a key configured (it returns at once
\* without a registered session, without the permission or without a key):
\* up to the first await of voiceSession.startSession
startRealtimeSession(c) ==
    /\ registry.voiceSession
    /\ ~ApiKeyMissing
    /\ nCalls < MaxRegistryStarts
    /\ registry' = SetStarted(registry, "sessionId")
    /\ StartSessionRun(c)

\* startRealtimeSession: the catch around `await voiceSession.startSession`
StartRealtimeCatch(k) ==
    /\ pc[k] \in {"threwNoKey", "threwPlayer", "threwCapture", "threwConnect",
                  "threwTypeError"}
    /\ pc' = [pc EXCEPT ![k] = "caught"]
    /\ registry' = ResetStarted(registry)
    /\ lastOp' = Op("other")
    /\ UNCHANGED <<chunker, units, platform, apiKey, status, mode, session,
                   audioCapture, audioPlayer, nCalls, ctx, conn, cap, player,
                   tool, ended>>

\* stopRealtimeSession(): endSession of the registered session, then the
\* registry forgets the started session
stopRealtimeSession(closeThrows) ==
    /\ registry.voiceSession
    /\ EndSessionRun(closeThrows)
    /\ registry' = ResetStarted(registry)

\* ------------------------------------------------- outbound: text, audio

\* sendTextMessage(message)
sendTextMessage ==
    /\ lastOp' = IF session = 0
                 THEN Op("sendTextMessage")
                 ELSE [Op("sendTextMessage") EXCEPT
                          !.sent = TRUE, !.live = (conn[session] = "open"),
                          !.text = "msg"]
    /\ UNCHANGED <<registry, chunker, units, platform, apiKey, status, mode, session, audioCapture,
                   audioPlayer, nCalls, pc, ctx, conn, cap, player, tool, ended>>

\* sendContextualUpdate(update)
sendContextualUpdate ==
    /\ lastOp' = IF session = 0
                 THEN Op("sendContextualUpdate")
                 ELSE [Op("sendContextualUpdate") EXCEPT
                          !.sent = TRUE, !.live = (conn[session] = "open"),
                          !.text = "[CONTEXT UPDATE] msg"]
    /\ UNCHANGED <<registry, chunker, units, platform, apiKey, status, mode, session, audioCapture,
                   audioPlayer, nCalls, pc, ctx, conn, cap, player, tool, ended>>

\* onData: `if (!this.session) return` lets a chunk through to sendRealtimeInput
OnDataGate == session # 0

\* Capture k has audio for its data callback under way: the web worklet
\* processor has posted the block that completes a chunk; a native poll tick
\* has started and awaits the stop of the segment and the read of its file.
CaptureTick(k) ==
    /\ CaptureEmits(k)
    /\ cap[k].tick = "idle"
    /\ cap' = [cap EXCEPT ![k].tick = "reading"]
    /\ lastOp' = Op("other")
    /\ UNCHANGED <<registry, chunker, units, platform, apiKey, status, mode, session,
                   audioCapture, audioPlayer, nCalls, pc, ctx, conn, player,
                   tool, ended>>

\* Capture k hands the chunk to the onData callback given by startSession
\* (web: port.onmessage runs; native: the file was read); an error of
\* sendRealtimeInput is caught there.  Neither capture looks at whether it
\* was stopped before it calls options.onData.
OnData(k) ==
    /\ cap[k].tick = "reading"
    /\ cap' = [cap EXCEPT ![k].tick = IF platform = "web" THEN "idle" ELSE "restart"]
    /\ lastOp' = IF OnDataGate
                 THEN [Op("onData") EXCEPT
                          !.k = k, !.sent = TRUE,
                          !.live = (session # 0 /\ conn[session] = "open")]
                 ELSE [Op("onData") EXCEPT !.k = k]
    /\ UNCHANGED <<registry, chunker, units, platform, apiKey, status, mode, session,
                   audioCapture, audioPlayer, nCalls, pc, ctx, conn, player,
                   tool, ended>>

\* native poll tick after onData: the temp file is deleted and, `if (!stopped)`,
\* the next segment is prepared and recorded
NativeTickRestart(k) ==
    /\ platform = "native"
    /\ cap[k].tick = "restart"
    /\ cap' = [cap EXCEPT ![k].tick = "idle"]
    /\ lastOp' = Op("other")
    /\ UNCHANGED <<registry, chunker, units, platform, apiKey, status, mode, session,
                   audioCapture, audioPlayer, nCalls, pc, ctx, conn, player,
                   tool, ended>>

\* A poll tick of native capture k fails (stopping the segment, reading the
\* file or restarting the recorder throws): `if (!stopped) options.onError(e)`.
\* The interval is left set and `recording` is left as it was.
OnCaptureError(k) ==
    /\ platform = "native"
    /\ cap[k].tick \in {"reading", "restart"}
    /\ cap[k].stopped \/ cap[k].errs < MaxFaults
    /\ IF cap[k].stopped
       THEN /\ cap' = [cap EXCEPT ![k].tick = "idle"]
            /\ lastOp' = Op("other")
            /\ UNCHANGED status
       ELSE /\ cap' = [cap EXCEPT ![k].tick = "idle", ![k].errs = @ + 1]
            /\ setRealtimeStatus("error")
            /\ lastOp' = [Op("onError") EXCEPT !.k = k]
    /\ UNCHANGED <<registry, chunker, units, platform, apiKey, mode, session,
                   audioCapture, audioPlayer, nCalls, pc, ctx, conn, player,
                   tool, ended>>

\* ------------------------------------------------------ inbound messages

\* tool names: the two declared tools, a name that is not declared, no name
KnownTools == {"messageClaudeCode", "processPermissionRequest"}
ToolNames == KnownTools \union {"unknownTool", ""}

\* the result given to a call whose name is not a declared tool
UnknownToolResult == "error (unknown tool)"

\* A functionCalls list: call i carries a name (or none, "") and the id i (or
\* none, 0).
CallLists ==
    UNION { {f \in [1..n -> [name : ToolNames, id : 0..n]] :
                \A i \in 1..n : f[i].id \in {0, i}} : n \in 0..MaxCalls }

PartLists == UNION { [1..n -> {"audio", "text"}] : n \in 0..MaxParts }

\* A LiveServerMessage: serverContent.modelTurn.parts, serverContent
\* .turnComplete, and toolCall.functionCalls when toolCall is TRUE
Messages ==
    { m \in [parts : PartLists, turnComplete : BOOLEAN,
             toolCall : BOOLEAN, calls : CallLists] :
        ~m.toolCall => m.calls = <<>> }

\* messages without a toolCall
PlainMessages == { m \in Messages : ~m.toolCall }

\* parts with inlineData of an audio mime type
AudioParts(m) == Cardinality({i \in DOMAIN m.parts : m.parts[i] = "audio"})

\* a message that leaves the turn mode alone
TurnModeAfter_Keep(m, before) == before

\* handleServerMessage: the turn mode it leaves, from the mode it found
TurnModeAfter(m, before) ==
    IF m.turnComplete THEN "idle"
    ELSE IF AudioParts(m) > 0 THEN "speaking"
    ELSE before

\* ---------------------------------------------------------- tool dispatch

\* invoked: the calls whose executor has been invoked, in the order of the
\* invocations
NoTool == [state |-> "none", from |-> 0, calls |-> <<>>, i |-> 0,
           responses |-> <<>>, sent |-> 0, sentOn |-> 0, invoked |-> <<>>]

\* realtimeClientTools[name](args), when it resolves
ExecutorResult(name) ==
    IF name = "messageClaudeCode" THEN "sent" ELSE "done"

\* a test that lets a call without an id through
SkipsCall_NoName(call) == call.name = ""

\* `if (!call.name || !call.id) continue`
SkipsCall(call) == call.name = "" \/ call.id = 0

\* The loop of handleToolCalls from call i on, up to the first await of an
\* executor or to the end of the list.
RECURSIVE RunCalls(_, _, _)
RunCalls(calls, i, responses) ==
    IF i > Len(calls)
    THEN [i |-> i, responses |-> responses, awaiting |-> FALSE]
    ELSE IF SkipsCall(calls[i])
    THEN RunCalls(calls, i + 1, responses)
    ELSE IF calls[i].name \in KnownTools
    THEN [i |-> i, responses |-> responses, awaiting |-> TRUE]
    ELSE RunCalls(calls, i + 1,
                  Append(responses, [id |-> calls[i].id, name |-> calls[i].name,
                                     result |-> UnknownToolResult]))

\* `if (responses.length > 0 && this.session)`
SendsToolResponse(responses) == Len(responses) > 0 /\ session # 0

\* handleToolCalls after a synchronous run r of its loop: it either awaits an
\* executor, or it is past the loop and sends the batch
AfterRun(t, r) ==
    IF r.awaiting
    THEN [t EXCEPT !.state = "awaiting", !.i = r.i, !.responses = r.responses,
                   !.invoked = Append(@, r.i)]
    ELSE [t EXCEPT !.state = "done", !.i = r.i, !.responses = r.responses,
                   !.sent = IF SendsToolResponse(r.responses) THEN 1 ELSE 0,
                   !.sentOn = IF SendsToolResponse(r.responses) THEN session ELSE 0]

\* callbacks.onmessage of connection k: handleServerMessage(m), with the
\* synchronous start of handleToolCalls.  The remote end sends no further
\* toolCall message while the executors of the previous one are awaited.
OnMessage(k, m) ==
    /\ conn[k] \in {"open", "closing"}
    /\ m.toolCall => tool.state # "awaiting"
    /\ setRealtimeMode(TurnModeAfter(m, mode), FALSE)
    /\ tool' = IF m.toolCall
               THEN AfterRun([NoTool EXCEPT !.from = k, !.calls = m.calls],
                             RunCalls(m.calls, 1, <<>>))
               ELSE tool
    /\ player' = IF audioPlayer # 0
                 THEN [player EXCEPT ![audioPlayer] = PlayTimes(@, AudioParts(m))]
                 ELSE player
    /\ lastOp' = [Op("onmessage") EXCEPT
                     !.k = k, !.audio = AudioParts(m), !.done = m.turnComplete,
                     !.played = IF audioPlayer # 0 THEN AudioParts(m) ELSE 0]
    /\ UNCHANGED <<registry, chunker, units, platform, apiKey, status, session,
                   audioCapture, audioPlayer, nCalls, pc, ctx, conn, cap, ended>>

\* The awaited executor resolves: its result is pushed and the loop goes on
ToolResolve ==
    /\ tool.state = "awaiting"
    /\ tool' = AfterRun(tool,
                   RunCalls(tool.calls, tool.i + 1,
                            Append(tool.responses,
                                   [id |-> tool.calls[tool.i].id,
                                    name |-> tool.calls[tool.i].name,
                                    result |-> ExecutorResult(tool.calls[tool.i].name)])))
    /\ lastOp' = Op("toolResolve")
    /\ UNCHANGED <<registry, chunker, units, platform, apiKey, status, mode, session, audioCapture,
                   audioPlayer, nCalls, pc, ctx, conn, cap, player, ended>>

\* The awaited executor throws (its promise rejects): nothing in
\* handleToolCalls catches it, the promise of handleToolCalls rejects
ToolThrow ==
    /\ tool.state = "awaiting"
    /\ tool' = [tool EXCEPT !.state = "rejected"]
    /\ lastOp' = Op("toolThrow")
    /\ UNCHANGED <<registry, chunker, units, platform, apiKey, status, mode, session, audioCapture,
                   audioPlayer, nCalls, pc, ctx, conn, cap, player, ended>>

\* ------------------------------------- web capture: the sample pipeline

\* A sample is <<n, d>>, the number n / d.  The microphone delivers -1.0, a
\* small positive value and a value above full scale.
Samples == {<<0 - SampleDen, SampleDen>>, <<1, SampleDen>>,
            <<SampleDen + 2, SampleDen>>}

\* sample rates of the audio context: the target rate, twice it, 1.5 times it
NativeRates == {TARGET_SAMPLE_RATE, 2 * TARGET_SAMPLE_RATE,
                (3 * TARGET_SAMPLE_RATE) \div 2}

\* event.data of a worklet message
Blocks == UNION { [1..n -> Samples] : n \in 1..MaxBlock }

NoChunker == [rate |-> TARGET_SAMPLE_RATE, buffer |-> <<>>, fed |-> <<>>,
              slices |-> <<>>, sent |-> <<>>]

\* const CHUNK_SIZE = Math.floor(nativeSampleRate * 0.1)
CHUNK_SIZE(rate) == rate \div 10

\* Numbers of the source are IEEE doubles: a quotient or a product that has
\* no exact representation is rounded to the nearest one (ties to even).  The
\* source has 53 significant bits and rates such as 24000 and 44100; the
\* model has MantissaBits significant bits and rates of a few units, the same
\* rounding at a scale that can be enumerated.  A number is written
\* <<n, d>> for n / d.
MantissaBits == 9

\* n / d rounded to the nearest integer, ties to even (n >= 0, d > 0)
RoundHalfEven(n, d) ==
    LET q == n \div d
        r == n % d
    IN  IF 2 * r > d \/ (2 * r = d /\ q % 2 = 1) THEN q + 1 ELSE q

\* m / 2^k in lowest terms
RECURSIVE Lowest(_, _)
Lowest(m, k) ==
    IF k > 0 /\ m % 2 = 0 THEN Lowest(m \div 2, k - 1) ELSE <<m, 2 ^ k>>

\* n * 2^k / d rounded, for the least k that gives MantissaBits bits
RECURSIVE RoundAt(_, _, _)
RoundAt(n, d, k) ==
    IF n >= d * 2 ^ (MantissaBits - 1) THEN Lowest(RoundHalfEven(n, d), k)
    ELSE RoundAt(2 * n, d, k + 1)

\* the double nearest to n / d (0 <= n / d < 2^MantissaBits)
Fl(n, d) == IF n = 0 THEN <<0, 1>> ELSE RoundAt(n, d, 0)

\* Math.floor of a number that is not negative
Floor(x) == x[1] \div x[2]

\* resample: const ratio = sourceSampleRate / targetSampleRate
ResampleRatio(sourceSampleRate, targetSampleRate) ==
    Fl(sourceSampleRate, targetSampleRate)

\* resample: const outputLength = Math.floor(input.length / ratio)
OutputLength(len, ratio) == Floor(Fl(len * ratio[2], ratio[1]))

\* resample: const srcIndex = i * ratio (i counted from 0)
SrcIndex(i, ratio) == Fl(i * ratio[1], ratio[2])

\* resample: the positions low and high read for output sample i
SrcLow(i, ratio) == Floor(SrcIndex(i, ratio))

\* high without the Math.min
SrcHigh_Unclamped(i, ratio, len) == SrcLow(i, ratio) + 1

\* const high = Math.min(low + 1, input.length - 1)
SrcHigh(i, ratio, len) ==
    IF SrcLow(i, ratio) + 1 < len - 1 THEN SrcLow(i, ratio) + 1 ELSE len - 1

\* what arithmetic on undefined gives
NaN == <<0, 0>>

\* input[k], k counted from 0: undefined outside the array
At(input, k) == IF k + 1 \in DOMAIN input THEN input[k + 1] ELSE NaN

\* input[low] * (1 - frac) + input[high] * frac for frac = f / D
Interpolate(lo, hi, f, D) ==
    IF lo = NaN \/ hi = NaN THEN NaN
    ELSE <<lo[1] * (D - f) + hi[1] * f, lo[2] * D>>

\* resample(input, sourceSampleRate, targetSampleRate): linear interpolation
\* at the positions i * ratio.  Positions and lengths are rounded as above;
\* the interpolated value is kept as the exact fraction.
resample(input, sourceSampleRate, targetSampleRate) ==
    IF sourceSampleRate = targetSampleRate THEN input
    ELSE LET ratio == ResampleRatio(sourceSampleRate, targetSampleRate)
             outputLength == OutputLength(Len(input), ratio)
         IN  [i \in 1..outputLength |->
                LET srcIndex == SrcIndex(i - 1, ratio)
                    low  == SrcLow(i - 1, ratio)
                    high == SrcHigh(i - 1, ratio, Len(input))
                    frac == srcIndex[1] - low * srcIndex[2]
                IN  Interpolate(At(input, low), At(input, high), frac,
                                srcIndex[2])]

\* a clamp left out: the sample is scaled as it comes
Clamp_None(n, d) == n

\* Math.max(-1, Math.min(1, s)) for s = n / d: the numerator of the result
Clamp(n, d) == IF n > d THEN d ELSE IF n < 0 - d THEN 0 - d ELSE n

\* a / b rounded towards zero (b > 0)
Trunc(a, b) == IF a >= 0 THEN a \div b ELSE 0 - ((0 - a) \div b)

\* storing a number into an Int16Array element
ToInt16(x) == ((x + 32768) % 65536) - 32768

\* one scale for both signs
PcmScale_Same(c) == 32768

\* s < 0 ? 0x8000 : 0x7FFF
PcmScale(c) == IF c < 0 THEN 32768 ELSE 32767

\* int16[i] = s < 0 ? s * 0x8000 : s * 0x7FFF, s the clamped sample
SampleToInt16(s) ==
    LET c == Clamp(s[1], s[2])
    IN  ToInt16(Trunc(c * PcmScale(c), s[2]))

\* new Uint8Array(int16.buffer): two bytes per sample, low byte first
RECURSIVE Int16ToBytes(_)
Int16ToBytes(xs) ==
    IF xs = <<>> THEN <<>>
    ELSE LET u == (Head(xs) + 65536) % 65536
         IN  <<u % 256, u \div 256>> \o Int16ToBytes(Tail(xs))

\* btoa: three bytes give four characters (numbered 0..63), '=' (64) pads
RECURSIVE btoa(_)
btoa(b) ==
    IF Len(b) = 0 THEN <<>>
    ELSE IF Len(b) = 1
    THEN <<b[1] \div 4, (b[1] % 4) * 16, 64, 64>>
    ELSE IF Len(b) = 2
    THEN <<b[1] \div 4, (b[1] % 4) * 16 + (b[2] \div 16), (b[2] % 16) * 4, 64>>
    ELSE <<b[1] \div 4, (b[1] % 4) * 16 + (b[2] \div 16),
           (b[2] % 16) * 4 + (b[3] \div 64), b[3] % 64>>
         \o btoa(SubSeq(b, 4, Len(b)))

\* float32ToBase64PCM16(float32)
float32ToBase64PCM16(float32) ==
    btoa(Int16ToBytes([i \in 1..Len(float32) |-> SampleToInt16(float32[i])]))

\* atob: four characters give up to three bytes
RECURSIVE atob(_)
atob(c) ==
    IF Len(c) = 0 THEN <<>>
    ELSE LET b1 == c[1] * 4 + (c[2] \div 16)
             b2 == (c[2] % 16) * 16 + ((c[3] % 64) \div 4)
             b3 == (c[3] % 4) * 64 + (c[4] % 64)
         IN  (IF c[3] = 64 THEN <<b1>>
              ELSE IF c[4] = 64 THEN <<b1, b2>>
              ELSE <<b1, b2, b3>>) \o atob(SubSeq(c, 5, Len(c)))

\* new Int16Array(bytes.buffer) of base64PCM16ToFloat32: the 16-bit samples
\* a receiver reads from a chunk (each is the numerator of a value / 0x8000)
RECURSIVE BytesToInt16(_)
BytesToInt16(b) ==
    IF Len(b) < 2 THEN <<>>
    ELSE <<ToInt16(b[1] + 256 * b[2])>> \o BytesToInt16(SubSeq(b, 3, Len(b)))

base64PCM16ToInt16(base64) == BytesToInt16(atob(base64))

\* buffer.slice(0, CHUNK_SIZE)
Chunk(buffer, n) == SubSeq(buffer, 1, n)

\* a slice that starts one sample early
Rest_Overlap(buffer, n) == SubSeq(buffer, n, Len(buffer))

\* buffer.slice(CHUNK_SIZE)
Rest(buffer, n) == SubSeq(buffer, n + 1, Len(buffer))

\* while (buffer.length >= CHUNK_SIZE) { ... options.onData(base64) }: what
\* is left in the buffer, and the slices taken, in the order of the calls
RECURSIVE Drain(_, _, _)
Drain(buffer, n, out) ==
    IF Len(buffer) < n THEN [buffer |-> buffer, out |-> out]
    ELSE Drain(Rest(buffer, n), n, Append(out, Chunk(buffer, n)))

\* workletNode.port.onmessage with a block of samples: the block is appended
\* to the buffer and every full chunk is resampled, encoded and handed to
\* options.onData
WorkletMessage(block) ==
    /\ Len(chunker.fed) + Len(block) <= MaxFed
    /\ LET r == Drain(chunker.buffer \o block, CHUNK_SIZE(chunker.rate), <<>>)
       IN  chunker' =
             [chunker EXCEPT
                !.buffer = r.buffer,
                !.fed = @ \o block,
                !.slices = @ \o r.out,
                !.sent = @ \o [i \in 1..Len(r.out) |->
                                 float32ToBase64PCM16(
                                     resample(r.out[i], chunker.rate,
                                              TARGET_SAMPLE_RATE))]]
    /\ lastOp' = Op("workletMessage")
    /\ UNCHANGED <<registry, units, platform, apiKey, status, mode, session,
                   audioCapture, audioPlayer, nCalls, pc, ctx, conn, cap, player,
                   tool, ended>>

\* --------------------------------------- native capture, segment by segment

\* createAudioCapture of capture.native.ts taken alone.  Every segment is one
\* AudioRecorder; recorders are numbered in the order they are created, which
\* is the order their segments are recorded in.  rec[r] is what recorder r is
\* doing, file[r] that its segment file exists, ticks[t] where the poll tick
\* t stands and which recorder it took as currentRecording.
Recorders == 1..MaxRecorders
Ticks == 1..MaxTicks

NoTick == [at |-> "free", cur |-> 0]

NoRecorder == [start |-> "none", stopped |-> FALSE, recording |-> 0,
               pollInterval |-> FALSE, made |-> 0,
               rec |-> [r \in Recorders |-> "none"],
               file |-> [r \in Recorders |-> FALSE],
               ticks |-> [t \in Ticks |-> NoTick],
               emitted |-> <<>>, errors |-> 0]

\* recording.record() on the recorder r: it records into its file once it is
\* prepared
Record(c, r) == [c EXCEPT !.rec[r] = "recording", !.file[r] = TRUE]

\* options.onError, counted up to MaxFaults
RecOnError(c) == [c EXCEPT !.errors = IF @ < MaxFaults THEN @ + 1 ELSE @]

\* start(): stopped = false; await AudioModule.setAudioModeAsync
RecStart ==
    /\ recorder.start = "none"
    /\ recorder' = [recorder EXCEPT !.start = "setAudioMode", !.stopped = FALSE]
    /\ lastOp' = Op("recStart")
    /\ UNCHANGED <<sessionVars, processor, fileplayer, calc>>

\* startRecordingCycle up to await recording.prepareToRecordAsync(); a
\* capture stopped in the meantime returns at once and start() resolves
startRecordingCycle ==
    /\ recorder.start = "setAudioMode"
    /\ recorder' =
         IF recorder.stopped
         THEN [recorder EXCEPT !.start = "resolved"]
         ELSE [recorder EXCEPT !.start = "prepare", !.made = @ + 1,
                               !.recording = recorder.made + 1,
                               !.rec[recorder.made + 1] = "created"]
    /\ lastOp' = Op("recCycle")
    /\ UNCHANGED <<sessionVars, processor, fileplayer, calc>>

\* startRecordingCycle after prepareToRecordAsync: recording.record() and
\* setInterval.  After a stop() `recording` is null, record() throws and the
\* catch calls options.onError; start() resolves either way.
RecPrepared ==
    /\ recorder.start = "prepare"
    /\ recorder' =
         IF recorder.recording = 0
         THEN RecOnError([recorder EXCEPT !.start = "resolved"])
         ELSE Record([recorder EXCEPT !.start = "resolved",
                                      !.rec[recorder.made] = "prepared",
                                      !.pollInterval = TRUE],
                     recorder.recording)
    /\ lastOp' = Op("recPrepared")
    /\ UNCHANGED <<sessionVars, processor, fileplayer, calc>>

\* the interval fires: if (stopped || !recording) return; currentRecording =
\* recording; await currentRecording.stop().  Nothing keeps a tick from
\* firing while an earlier one is still awaiting.
PollTick(t) ==
    /\ recorder.pollInterval
    /\ recorder.ticks[t].at = "free"
    /\ ~recorder.stopped /\ recorder.recording # 0
    /\ recorder' = [recorder EXCEPT !.ticks[t] = [at |-> "stop",
                                                  cur |-> recorder.recording]]
    /\ lastOp' = Op("recTick")
    /\ UNCHANGED <<sessionVars, processor, fileplayer, calc>>

\* the catch of the tick: if (!stopped) options.onError
TickCatch(c, t) ==
    IF c.stopped THEN [c EXCEPT !.ticks[t] = NoTick]
    ELSE RecOnError([c EXCEPT !.ticks[t] = NoTick])

\* currentRecording.stop() settles.  A recorder that is recording stops and
\* the promise resolves; on a recorder that is not recording the promise
\* resolves or rejects (ok), as the platform's recorder decides.  Then uri is
\* read and readAsStringAsync awaited.
TickStopSettles(t, ok) ==
    /\ recorder.ticks[t].at = "stop"
    /\ recorder.rec[recorder.ticks[t].cur] = "recording" => ok
    /\ recorder' =
         IF ~ok THEN TickCatch(recorder, t)
         ELSE [recorder EXCEPT
                 !.rec[recorder.ticks[t].cur] =
                     IF @ = "recording" THEN "stopped" ELSE @,
                 !.ticks[t].at = "read"]
    /\ lastOp' = Op("recTickStop")
    /\ UNCHANGED <<sessionVars, processor, fileplayer, calc>>

\* readAsStringAsync settles: with the file there, options.onData(base64)
\* and await deleteAsync; with the file gone it rejects into the catch
TickReadSettles(t) ==
    /\ recorder.ticks[t].at = "read"
    /\ recorder' =
         IF recorder.file[recorder.ticks[t].cur]
         THEN [recorder EXCEPT !.emitted = Append(@, recorder.ticks[t].cur),
                               !.ticks[t].at = "delete"]
         ELSE TickCatch(recorder, t)
    /\ lastOp' = Op("recTickRead")
    /\ UNCHANGED <<sessionVars, processor, fileplayer, calc>>

\* deleteAsync(...).catch(() => {}) settles; if (!stopped) recording = new
\* AudioRecorder; await recording.prepareToRecordAsync()
TickDeleteSettles(t) ==
    /\ recorder.ticks[t].at = "delete"
    /\ recorder.stopped \/ recorder.made < MaxRecorders
    /\ recorder' =
         IF recorder.stopped
         THEN [recorder EXCEPT !.file[recorder.ticks[t].cur] = FALSE,
                               !.ticks[t] = NoTick]
         ELSE [recorder EXCEPT !.file[recorder.ticks[t].cur] = FALSE,
                               !.made = @ + 1,
                               !.recording = recorder.made + 1,
                               !.rec[recorder.made + 1] = "created",
                               !.ticks[t] = [at |-> "prepare",
                                             cur |-> recorder.made + 1]]
    /\ lastOp' = Op("recTickDelete")
    /\ UNCHANGED <<sessionVars, processor, fileplayer, calc>>

\* prepareToRecordAsync of the restart settles: recording.record() is called
\* on whatever `recording` holds by now.  null throws; a recorder another
\* tick created and has not prepared yet throws; a prepared one records.
TickPrepared(t) ==
    /\ recorder.ticks[t].at = "prepare"
    /\ LET mine == recorder.ticks[t].cur
           c == [recorder EXCEPT !.rec[mine] = "prepared"]
       IN recorder' =
            IF c.recording = 0 \/ c.rec[c.recording] = "created"
            THEN TickCatch(c, t)
            ELSE [Record(c, c.recording) EXCEPT !.ticks[t] = NoTick]
    /\ lastOp' = Op("recTickPrepared")
    /\ UNCHANGED <<sessionVars, processor, fileplayer, calc>>

\* stop(): stopped = true, clearInterval, recording?.stop(), recording = null
RecStop ==
    /\ recorder.start # "none"
    /\ ~recorder.stopped
    /\ recorder' = [recorder EXCEPT
                      !.stopped = TRUE, !.pollInterval = FALSE,
                      !.rec = [r \in Recorders |->
                                 IF r = recorder.recording /\ @[r] = "recording"
                                 THEN "stopped" ELSE @[r]],
                      !.recording = 0]
    /\ lastOp' = Op("recStop")
    /\ UNCHANGED <<sessionVars, processor, fileplayer, calc>>

\* ------------------------------------------- web player, sample by sample

\* The PCMPlaybackProcessor of playback.ts and the port the player posts to.
\* Samples are numbered in the order they are posted (1, 2, ...), so that a
\* repeated or a lost sample shows; 0 is the silence the processor fills in.
\* port is what was posted and not yet handled by port.onmessage: blocks of
\* samples, and <<0>> for the 'clear' message.
ClearMessage == <<0>>

NoProcessor == [buffer |-> <<>>, port |-> <<>>, posted |-> 0, cleared |-> 0,
                clears |-> 0, out |-> <<>>, rendered |-> <<>>, periods |-> 0]

\* n consecutive sample numbers after the number from
Numbered(from, n) == [i \in 1..n |-> from + i]

\* n zeros: output.fill(0, ...)
Zeros(n) == [i \in 1..n |-> 0]

\* play() of a started player: workletNode.port.postMessage(resampled)
PortPostSamples(n) ==
    /\ processor.posted + n <= MaxPosted
    /\ processor' = [processor EXCEPT
                       !.port = Append(@, Numbered(processor.posted, n)),
                       !.posted = @ + n]
    /\ lastOp' = Op("post")
    /\ UNCHANGED <<sessionVars, recorder, fileplayer, calc>>

\* clear() of a started player: workletNode.port.postMessage('clear');
\* cleared is the number of the last sample posted before it
PortPostClear ==
    /\ processor.posted > processor.cleared
    /\ processor' = [processor EXCEPT !.port = Append(@, ClearMessage),
                                      !.cleared = processor.posted]
    /\ lastOp' = Op("postClear")
    /\ UNCHANGED <<sessionVars, recorder, fileplayer, calc>>

\* port.onmessage of the processor, one message
PortOnMessage ==
    /\ processor.port # <<>>
    /\ processor' =
         IF Head(processor.port) = ClearMessage
         THEN [processor EXCEPT !.buffer = <<>>, !.port = Tail(@),
                                !.clears = @ + 1]
         ELSE [processor EXCEPT !.buffer = @ \o Head(processor.port),
                                !.port = Tail(@)]
    /\ lastOp' = Op("portMessage")
    /\ UNCHANGED <<sessionVars, recorder, fileplayer, calc>>

\* what process() leaves in _buffer, as if it never consumed
RenderRest_Stall(buffer, n) == buffer

\* what process() leaves in _buffer for an output of n samples
RenderRest(buffer, n) ==
    IF Len(buffer) >= n THEN SubSeq(buffer, n + 1, Len(buffer)) ELSE <<>>

\* what process() writes to an output of n samples
RenderOutput(buffer, n) ==
    IF Len(buffer) >= n THEN SubSeq(buffer, 1, n)
    ELSE IF Len(buffer) > 0 THEN buffer \o Zeros(n - Len(buffer))
    ELSE Zeros(n)

\* process(inputs, outputs) with an output of n samples
process(n) ==
    /\ processor.periods < MaxPeriods
    /\ processor' = [processor EXCEPT
                       !.out = RenderOutput(processor.buffer, n),
                       !.buffer = RenderRest(processor.buffer, n),
                       !.rendered = @ \o RenderOutput(processor.buffer, n),
                       !.periods = @ + 1]
    /\ lastOp' = Op("process")
    /\ UNCHANGED <<sessionVars, recorder, fileplayer, calc>>

\* ------------------------------------------ native player, chunk by chunk

\* createAudioPlayer of part_001 taken alone.  Chunks are numbered in the
\* order play() enqueues them.  bodies[b] is a run of playNext between its
\* awaits; player is the chunk whose AudioPlayer the closure variable holds
\* (0 = null); sounding are the chunks whose AudioPlayer is playing; order is
\* the chunks in the order player.play() was called for them.  player.playing
\* is taken to be true from play() until the chunk ends or is paused.
\* removed are the chunks that clear(), stop() or start() took out of the
\* queue; skipped are the chunks whose playNext body went through its catch
\* before player.play() had returned.
Bodies == 1..MaxBodies

NoBody == [at |-> "free", chunk |-> 0]

NoFilePlayer == [stopped |-> FALSE, playing |-> FALSE, queue |-> <<>>,
                 player |-> 0, bodies |-> [b \in Bodies |-> NoBody],
                 sounding |-> {}, order |-> <<>>, enqueued |-> 0,
                 clearedAt |-> 0, removed |-> {}, skipped |-> {}]

\* the chunks in the queue
Queued(c) == {c.queue[i] : i \in DOMAIN c.queue}

\* queue = []
EmptyQueue(c) == [c EXCEPT !.queue = <<>>, !.removed = @ \union Queued(c)]

FreeBodies(c) == {b \in Bodies : c.bodies[b].at = "free"}

\* the guard of playNext, without the playing flag
PlayNextReturns_NoFlag(c) == c.stopped \/ c.queue = <<>>

\* playNext: if (stopped || playing || queue.length === 0) return
PlayNextReturns(c) == c.stopped \/ c.playing \/ c.queue = <<>>

\* playNext() up to await FileSystem.writeAsStringAsync
FpPlayNext(c) ==
    IF PlayNextReturns(c) THEN c
    ELSE [c EXCEPT !.playing = TRUE, !.queue = Tail(@),
                   !.bodies[CHOOSE b \in FreeBodies(c) : TRUE] =
                       [at |-> "write", chunk |-> Head(c.queue)]]

\* player?.pause()
FpPause(c) == [c EXCEPT !.sounding = @ \ {c.player}]

\* start(): stopped = false; queue = []
FpStart ==
    /\ fileplayer' = [EmptyQueue(fileplayer) EXCEPT !.stopped = FALSE]
    /\ lastOp' = Op("fpStart")
    /\ UNCHANGED <<sessionVars, recorder, processor, calc>>

\* play(base64PCM): if (stopped) return; queue.push; playNext()
FpPlay ==
    /\ fileplayer.enqueued < MaxChunks
    /\ PlayNextReturns(fileplayer) \/ FreeBodies(fileplayer) # {}
    /\ IF fileplayer.stopped
       THEN /\ fileplayer' = fileplayer
            /\ lastOp' = Op("fpPlayIgnored")
       ELSE /\ fileplayer' =
                 FpPlayNext([fileplayer EXCEPT
                               !.queue = Append(@, fileplayer.enqueued + 1),
                               !.enqueued = @ + 1])
            /\ lastOp' = Op("fpPlay")
    /\ UNCHANGED <<sessionVars, recorder, processor, calc>>

\* clear(): queue = []; player?.pause()
FpClear ==
    /\ fileplayer' = FpPause([EmptyQueue(fileplayer) EXCEPT
                                !.clearedAt = fileplayer.enqueued])
    /\ lastOp' = Op("fpClear")
    /\ UNCHANGED <<sessionVars, recorder, processor, calc>>

\* stop(): stopped = true; queue = []; player?.pause(); player = null
FpStop ==
    /\ fileplayer' = [FpPause([EmptyQueue(fileplayer) EXCEPT !.stopped = TRUE])
                        EXCEPT !.player = 0]
    /\ lastOp' = Op("fpStop")
    /\ UNCHANGED <<sessionVars, recorder, processor, calc>>

\* the end of a playNext body without the call of playNext
FpBodyEnds_NoNext(c, b) == [c EXCEPT !.bodies[b] = NoBody, !.playing = FALSE]

\* the end of a playNext body: playing = false; playNext()
FpBodyEnds(c, b) ==
    FpPlayNext([c EXCEPT !.bodies[b] = NoBody, !.playing = FALSE])

\* catch (e): the error is logged and the body goes on to its end
FpCatch(c, b) ==
    FpBodyEnds([c EXCEPT !.skipped = @ \union {c.bodies[b].chunk}], b)

\* writeAsStringAsync settles.  Resolved: player = new AudioPlayer(tempFile);
\* player.play(), then the completion poll is awaited.  Rejected: the catch
\* logs and the body ends.
FpWriteSettles(b, ok) ==
    /\ fileplayer.bodies[b].at = "write"
    /\ fileplayer' =
         IF ok
         THEN [fileplayer EXCEPT
                 !.player = fileplayer.bodies[b].chunk,
                 !.sounding = @ \union {fileplayer.bodies[b].chunk},
                 !.order = Append(@, fileplayer.bodies[b].chunk),
                 !.bodies[b].at = "sound"]
         ELSE FpCatch(fileplayer, b)
    /\ lastOp' = [Op("fpWrite") EXCEPT !.threw = ~ok]
    /\ UNCHANGED <<sessionVars, recorder, processor, calc>>

\* writeAsStringAsync resolves and playback throws: `new AudioModule
\* .AudioPlayer(tempFile)` throws (built = FALSE, player keeps its value), or
\* player.play() throws on the new AudioPlayer; the catch logs
FpPlayThrows(b, built) ==
    /\ fileplayer.bodies[b].at = "write"
    /\ fileplayer' =
         FpCatch(IF built
                 THEN [fileplayer EXCEPT !.player = fileplayer.bodies[b].chunk]
                 ELSE fileplayer, b)
    /\ lastOp' = [Op("fpPlayThrows") EXCEPT !.threw = TRUE]
    /\ UNCHANGED <<sessionVars, recorder, processor, calc>>

\* the AudioPlayer of chunk c reaches the end of its file
FpChunkEnds(c) ==
    /\ c \in fileplayer.sounding
    /\ fileplayer' = [fileplayer EXCEPT !.sounding = @ \ {c}]
    /\ lastOp' = Op("fpChunkEnds")
    /\ UNCHANGED <<sessionVars, recorder, processor, calc>>

\* the 50 ms check finds !player || !player.playing: the promise resolves
\* and deleteAsync is awaited
FpPollResolves(b) ==
    /\ fileplayer.bodies[b].at = "sound"
    /\ fileplayer.player = 0 \/ fileplayer.player \notin fileplayer.sounding
    /\ fileplayer' = [fileplayer EXCEPT !.bodies[b].at = "delete"]
    /\ lastOp' = Op("fpPoll")
    /\ UNCHANGED <<sessionVars, recorder, processor, calc>>

\* deleteAsync(...).catch(() => {}) settles; playing = false; playNext()
FpDeleteSettles(b) ==
    /\ fileplayer.bodies[b].at = "delete"
    /\ fileplayer' = FpBodyEnds(fileplayer, b)
    /\ lastOp' = Op("fpDelete")
    /\ UNCHANGED <<sessionVars, recorder, processor, calc>>

\* ------------------------------------------------ pure functions, applied

\* One application of a pure function.  calc.fn names the function, x, a, b
\* and n are its arguments, out is its result once it has been applied.
NoCalc == [fn |-> "none", x |-> <<>>, a |-> 1, b |-> 1, n |-> 0,
           out |-> <<>>, done |-> FALSE]

OUTPUT_SAMPLE_RATE == 24000
BITS_PER_SAMPLE == 16
NUM_CHANNELS == 1

\* DataView.setUint32(offset, x, false): most significant byte first
BE32(x) == <<x \div 16777216, (x \div 65536) % 256, (x \div 256) % 256, x % 256>>

\* DataView.setUint32(offset, x, true): least significant byte first
LE32(x) == <<x % 256, (x \div 256) % 256, (x \div 65536) % 256, x \div 16777216>>

\* DataView.setUint16(offset, x, true)
LE16(x) == <<x % 256, (x \div 256) % 256>>

\* reading a little-endian 32-bit field that starts at byte offset (from 0)
ReadLE32(bytes, offset) ==
    bytes[offset + 1] + 256 * bytes[offset + 2] + 65536 * bytes[offset + 3]
        + 16777216 * bytes[offset + 4]

\* a size field that leaves the header out
RiffSize_DataOnly(dataLength) == dataLength

\* view.setUint32(4, 36 + dataLength, true)
RiffSize(dataLength) == 36 + dataLength

\* createWavHeader(dataLength): the 44 bytes of the header
createWavHeader(dataLength) ==
    LET byteRate == OUTPUT_SAMPLE_RATE * NUM_CHANNELS * (BITS_PER_SAMPLE \div 8)
        blockAlign == NUM_CHANNELS * (BITS_PER_SAMPLE \div 8)
    IN  BE32(1380533830) \o LE32(RiffSize(dataLength)) \o BE32(1463899717)
        \o BE32(1718449184) \o LE32(16) \o LE16(1) \o LE16(NUM_CHANNELS)
        \o LE32(OUTPUT_SAMPLE_RATE) \o LE32(byteRate) \o LE16(blockAlign)
        \o LE16(BITS_PER_SAMPLE)
        \o BE32(1684108385) \o LE32(dataLength)

\* pcmBytes.length of playNext: from an empty chunk to the longest string
\* atob can return (below 2^30), around the byte boundaries of the field
PayloadLengths == {0, 1, 255, 256, 257, 65535, 65536, 16777215, 16777216,
                   1073741823}

\* inputs of resample: every sequence of up to MaxInput samples
ResampleInputs == UNION { [1..n -> Samples] : n \in 0..MaxInput }

Rates == 1..MaxRate

\* samples in [-1, 1] given to the encoder
CodecSamples == { <<n, d>> : n \in (0 - MaxDen)..MaxDen, d \in 1..MaxDen } \
                { q \in ((0 - MaxDen)..MaxDen) \X (1..MaxDen) :
                    q[1] > q[2] \/ q[1] < 0 - q[2] }

CalcInputs ==
    { [NoCalc EXCEPT !.fn = "resample", !.x = x, !.a = a, !.b = b] :
        x \in ResampleInputs, a \in Rates, b \in Rates }
    \union { [NoCalc EXCEPT !.fn = "createWavHeader", !.n = n] :
               n \in PayloadLengths }
    \union { [NoCalc EXCEPT !.fn = "codec", !.x = <<s>>] : s \in CodecSamples }

\* resample(x, a, b)
ApplyResample ==
    /\ calc.fn = "resample" /\ ~calc.done
    /\ calc' = [calc EXCEPT !.out = resample(calc.x, calc.a, calc.b),
                            !.done = TRUE]
    /\ lastOp' = Op("resample")
    /\ UNCHANGED <<sessionVars, recorder, processor, fileplayer>>

\* createWavHeader(n)
ApplyWavHeader ==
    /\ calc.fn = "createWavHeader" /\ ~calc.done
    /\ calc' = [calc EXCEPT !.out = createWavHeader(calc.n), !.done = TRUE]
    /\ lastOp' = Op("createWavHeader")
    /\ UNCHANGED <<sessionVars, recorder, processor, fileplayer>>

\* float32ToBase64PCM16(x) read back by base64PCM16ToFloat32: the 16-bit
\* values, each the numerator of a sample / 0x8000
ApplyCodec ==
    /\ calc.fn = "codec" /\ ~calc.done
    /\ calc' = [calc EXCEPT
                  !.out = base64PCM16ToInt16(float32ToBase64PCM16(calc.x)),
                  !.done = TRUE]
    /\ lastOp' = Op("codec")
    /\ UNCHANGED <<sessionVars, recorder, processor, fileplayer>>

\* ------------------------------------------------------------------- spec

Init ==
    /\ platform \in {"web", "native"}
    /\ apiKey \in BOOLEAN
    /\ status = "idle"
    /\ mode = "idle"
    /\ session = 0
    /\ audioCapture = 0
    /\ audioPlayer = 0
    /\ nCalls = 0
    /\ pc = [k \in Calls |-> "new"]
    /\ ctx = [k \in Calls |-> FALSE]
    /\ conn = [k \in Calls |-> "none"]
    /\ cap = [k \in Calls |-> NoCapture]
    /\ player = [k \in Calls |-> NoPlayer]
    /\ tool = NoTool
    /\ ended = FALSE
    /\ lastOp = Op("init")
    /\ registry = NoRegistry
    /\ chunker = NoChunker
    /\ recorder = NoRecorder
    /\ processor = NoProcessor
    /\ fileplayer = NoFilePlayer
    /\ calc = NoCalc

\* Session lifecycle: every start, end, transport and capture step, with
\* inbound messages that carry audio and turn completion.
Next ==
    \/ \E v \in BOOLEAN : SetGeminiApiKey(v)
    \/ \E c \in BOOLEAN : StartSession(c)
    \/ \E k \in Calls : PlayerStartResolve(k)
    \/ \E k \in Calls : PlayerStartReject(k)
    \/ \E k \in Calls : WebGetUserMediaOk(k)
    \/ \E k \in Calls : WebGetUserMediaFail(k)
    \/ \E k \in Calls : WebAddModuleOk(k)
    \/ \E k \in Calls : WebAddModuleFail(k)
    \/ \E k \in Calls : NativeSetAudioModeOk(k)
    \/ \E k \in Calls : NativeSetAudioModeFail(k)
    \/ \E k \in Calls : NativePrepareOk(k)
    \/ \E k \in Calls : NativePrepareFail(k)
    \/ \E k \in Calls : ConnectOpen(k)
    \/ \E k \in Calls : ConnectOpenSendThrows(k)
    \/ \E k \in Calls : ConnectReject(k)
    \/ \E k \in Calls : ConnError(k)
    \/ \E k \in Calls : ConnClose(k)
    \/ \E t \in BOOLEAN : EndSession(t)
    \/ sendTextMessage
    \/ sendContextualUpdate
    \/ \E k \in Calls : CaptureTick(k)
    \/ \E k \in Calls : OnData(k)
    \/ \E k \in Calls : NativeTickRestart(k)
    \/ \E k \in Calls : OnCaptureError(k)
    \/ \E k \in Calls : NativeWriteDone(k)
    \/ \E k \in Calls : NativePlaybackEnds(k)
    \/ \E k \in Calls : WebProcessorDrains(k)
    \/ \E k \in Calls, m \in PlainMessages : OnMessage(k, m)

Spec == Init /\ [][Next]_vars

\* A session that startSession has connected: call 1 returned, player and
\* capture running, connection open.
Connected ==
    /\ platform \in {"web", "native"}
    /\ apiKey = TRUE
    /\ status = "connected"
    /\ mode = "idle"
    /\ session = 1
    /\ audioCapture = 1
    /\ audioPlayer = 1
    /\ nCalls = 1
    /\ pc = [k \in Calls |-> IF k = 1 THEN "returned" ELSE "new"]
    /\ ctx = [k \in Calls |-> FALSE]
    /\ conn = [k \in Calls |-> IF k = 1 THEN "open" ELSE "none"]
    /\ cap = [k \in Calls |->
                IF k # 1 THEN NoCapture
                ELSE IF platform = "web"
                THEN [NoCapture EXCEPT !.pc = "resolved", !.stream = TRUE,
                                       !.actx = TRUE, !.worklet = TRUE]
                ELSE [NoCapture EXCEPT !.pc = "resolved", !.recording = TRUE,
                                       !.active = TRUE, !.poll = TRUE]]
    /\ player = [k \in Calls |->
                   IF k # 1 THEN NoPlayer
                   ELSE IF platform = "web"
                   THEN [NoPlayer EXCEPT !.pc = "resolved", !.actx = TRUE,
                                         !.worklet = TRUE]
                   ELSE [NoPlayer EXCEPT !.pc = "resolved"]]
    /\ tool = NoTool
    /\ ended = FALSE
    /\ lastOp = Op("connect")
    /\ registry = NoRegistry
    /\ recorder = NoRecorder
    /\ processor = NoProcessor
    /\ fileplayer = NoFilePlayer

InitConnected ==
    /\ Connected
    /\ chunker = NoChunker
    /\ calc = NoCalc

\* Tool dispatch: a connected session receiving any message.
NextTool ==
    \/ \E m \in Messages : OnMessage(1, m)
    \/ ToolResolve
    \/ ToolThrow
    \/ \E t \in BOOLEAN : EndSession(t)
    \/ ConnClose(1)
    \/ ConnError(1)

ToolSpec == InitConnected /\ [][NextTool]_vars

\* The registry driving the session: register, start, stop, and the steps of
\* startSession and of the transport that a start goes through.
InitRegistry ==
    /\ Init
    /\ apiKey

NextRegistry ==
    \/ registerVoiceSession
    \/ \E c \in BOOLEAN : startRealtimeSession(c)
    \/ \E k \in Calls : StartRealtimeCatch(k)
    \/ \E t \in BOOLEAN : stopRealtimeSession(t)
    \/ \E k \in Calls : PlayerStartResolve(k)
    \/ \E k \in Calls : WebGetUserMediaOk(k)
    \/ \E k \in Calls : WebAddModuleOk(k)
    \/ \E k \in Calls : NativeSetAudioModeOk(k)
    \/ \E k \in Calls : NativePrepareOk(k)
    \/ \E k \in Calls : ConnectOpen(k)
    \/ \E k \in Calls : ConnectReject(k)
    \/ \E k \in Calls : ConnClose(k)

RegistrySpec == InitRegistry /\ [][NextRegistry]_vars

\* The web capture of a running session fed with blocks of samples, for each
\* sample rate of the audio context.
InitChunks ==
    /\ Connected
    /\ platform = "web"
    /\ \E r \in NativeRates : chunker = [NoChunker EXCEPT !.rate = r]
    /\ calc = NoCalc

NextChunks == \E block \in Blocks : WorkletMessage(block)

ChunkSpec == InitChunks /\ [][NextChunks]_vars

\* The native capture taken alone: start, the poll ticks and stop.
InitSegments ==
    /\ Connected
    /\ platform = "native"
    /\ chunker = NoChunker
    /\ calc = NoCalc

NextSegments ==
    \/ RecStart
    \/ startRecordingCycle
    \/ RecPrepared
    \/ \E t \in Ticks : PollTick(t)
    \/ \E t \in Ticks, ok \in BOOLEAN : TickStopSettles(t, ok)
    \/ \E t \in Ticks : TickReadSettles(t)
    \/ \E t \in Ticks : TickDeleteSettles(t)
    \/ \E t \in Ticks : TickPrepared(t)
    \/ RecStop

SegmentSpec == InitSegments /\ [][NextSegments]_vars

\* The web player's processor taken alone: posts, port deliveries and render
\* periods.
InitRender ==
    /\ Connected
    /\ platform = "web"
    /\ chunker = NoChunker
    /\ calc = NoCalc

NextRender ==
    \/ \E n \in 1..MaxIncoming : PortPostSamples(n)
    \/ PortPostClear
    \/ PortOnMessage
    \/ \E n \in 1..MaxOutput : process(n)

RenderSpec == InitRender /\ [][NextRender]_vars

\* The native player taken alone: start, play, clear, stop and the steps of
\* playNext.
InitFilePlayer ==
    /\ Connected
    /\ platform = "native"
    /\ chunker = NoChunker
    /\ calc = NoCalc

NextFilePlayer ==
    \/ FpStart
    \/ FpPlay
    \/ FpClear
    \/ FpStop
    \/ \E b \in Bodies, ok \in BOOLEAN : FpWriteSettles(b, ok)
    \/ \E b \in Bodies, built \in BOOLEAN : FpPlayThrows(b, built)
    \/ \E c \in 1..MaxChunks : FpChunkEnds(c)
    \/ \E b \in Bodies : FpPollResolves(b)
    \/ \E b \in Bodies : FpDeleteSettles(b)

FilePlayerSpec == InitFilePlayer /\ [][NextFilePlayer]_vars

\* The native player when every write, every playback and every completion
\* poll it has started comes to an end.
FilePlayerLiveSpec ==
    /\ InitFilePlayer
    /\ [][NextFilePlayer]_vars
    /\ WF_vars(\E b \in Bodies : \/ \E ok \in BOOLEAN : FpWriteSettles(b, ok)
                                  \/ \E built \in BOOLEAN : FpPlayThrows(b, built))
    /\ WF_vars(\E c \in 1..MaxChunks : FpChunkEnds(c))
    /\ WF_vars(\E b \in Bodies : FpPollResolves(b))
    /\ WF_vars(\E b \in Bodies : FpDeleteSettles(b))

\* The pure functions of the audio modules, each applied once to an input.
InitCalc ==
    /\ Connected
    /\ chunker = NoChunker
    /\ calc \in CalcInputs

NextCalc ==
    \/ ApplyResample
    \/ ApplyWavHeader
    \/ ApplyCodec

CalcSpec == InitCalc /\ [][NextCalc]_vars

\* ================================================================ claims

\* calls of a functionCalls list that carry both a name and an id
ValidCalls(calls) == {i \in DOMAIN calls : ~SkipsCall(calls[i])}

\* responses of the run that answer call i
Answers(i) == {j \in DOMAIN tool.responses : tool.responses[j].id = tool.calls[i].id}

\* handleToolCalls is over: it returned, or its promise rejected
ToolOver == tool.state \in {"done", "rejected"}

\* C1: for a message whose N calls all carry an id and a name, handleToolCalls
\* produces exactly N results, each call id exactly once, and a call to an
\* undeclared tool gets 'error (unknown tool)'.
C1_EveryCallAnswered ==
    (ToolOver /\ ValidCalls(tool.calls) = DOMAIN tool.calls) =>
        /\ Len(tool.responses) = Len(tool.calls)
        /\ \A i \in DOMAIN tool.calls :
              /\ Cardinality(Answers(i)) = 1
              /\ tool.calls[i].name \notin KnownTools =>
                    \A j \in Answers(i) : tool.responses[j].result = UnknownToolResult

\* C2: when an executor throws, the exception is caught inside handleToolCalls:
\* the run goes on (it does not reject) and the failing call has a result that
\* carries an error string instead of an executor result.
C2_ExecutorThrowCaught ==
    lastOp.op = "toolThrow" =>
        /\ tool.state \in {"awaiting", "done"}
        /\ \E j \in DOMAIN tool.responses :
              /\ tool.responses[j].name \in KnownTools
              /\ tool.responses[j].result # ExecutorResult(tool.responses[j].name)

\* C3: once handleToolCalls of a message is over, sendToolResponse has been
\* called exactly once with all the results if the message held a call with id
\* and name, and not at all otherwise.
C3_OneBatchedResponse ==
    ToolOver =>
        IF ValidCalls(tool.calls) = {}
        THEN tool.sent = 0
        ELSE /\ tool.sent = 1
             /\ Len(tool.responses) = Cardinality(ValidCalls(tool.calls))

\* C4: once endSession has returned (and until the next startSession) no
\* microphone is held and no output sink is open.
C4_EndedReleasesAudio ==
    ended => \A k \in Calls : ~MicOpen(k) /\ ~SinkOpen(k)

\* C5: a startSession that throws from its capture start or from its connect
\* block (endSession not having run meanwhile) has, when it throws, released
\* the microphone, stopped the player, left no connection open, published
\* 'error' and rethrown the original error.
C5_FailedStartUnwinds ==
    [][\A k \in Calls :
          (pc[k] \in {"awaitCaptureStart", "awaitConnect"} /\ pc'[k] # pc[k]
              /\ pc'[k] # "awaitConnect" /\ pc'[k] # "returned" /\ ~ended) =>
             /\ ~MicOpen(k)'
             /\ ~SinkOpen(k)'
             /\ conn'[k] # "open"
             /\ status' = "error"
             /\ pc'[k] \in {"threwCapture", "threwConnect"}]_vars

\* C6: whenever a startSession call throws, the status it leaves is 'error'.
C6_ThrowPublishesError ==
    [][\A k \in Calls :
          (pc'[k] # pc[k] /\ pc'[k] \notin {"awaitPlayerStart", "awaitCaptureStart",
                                             "awaitConnect", "returned"}) =>
             status' = "error"]_vars

\* C7: startSession without an API key publishes 'error' and throws in its
\* first run; it creates no player, no capture and no connection, then or later.
C7_NoKeyFailsFast ==
    /\ [][(nCalls' = nCalls + 1 /\ ~apiKey) =>
             /\ status' = "error"
             /\ pc'[nCalls'] = "threwNoKey"
             /\ UNCHANGED <<session, audioCapture, audioPlayer, conn, cap, player>>]_vars
    /\ [](\A k \in Calls :
             pc[k] = "threwNoKey" =>
                 player[k] = NoPlayer /\ cap[k] = NoCapture /\ conn[k] = "none")

C7_Witness ==
    \E k \in Calls : pc[k] = "threwNoKey" /\ status = "error" /\ lastOp.op = "startSession"

\* C8: a chunk is passed to sendRealtimeInput only while the
\* connection is open.
C8_ForwardOnlyWhileLive ==
    lastOp.op = "onData" => (lastOp.sent => lastOp.live)

\* a chunk handed to sendRealtimeInput on a connection the transport closed
C8_Witness ==
    lastOp.op = "onData" /\ lastOp.sent /\ ~lastOp.live /\ conn[session] = "closed"

\* C9: sendTextMessage and sendContextualUpdate call sendClientContent exactly
\* when a connection is open, context updates with the '[CONTEXT UPDATE] '
\* prefix.
C9_SendOnlyWhenOpen ==
    lastOp.op \in {"sendTextMessage", "sendContextualUpdate"} =>
        /\ lastOp.sent <=> (session # 0 /\ conn[session] = "open")
        /\ lastOp.sent =>
              lastOp.text = IF lastOp.op = "sendContextualUpdate"
                            THEN "[CONTEXT UPDATE] msg" ELSE "msg"

C11_AudioThenTurnComplete ==
    /\ (lastOp.op = "connect" /\ ~lastOp.threw) =>
           status = "connected" /\ mode = "idle"
    /\ (lastOp.op = "onmessage" /\ pc[lastOp.k] = "returned" /\ ~ended
           /\ \A j \in Calls \ {lastOp.k} : pc[j] = "new") =>
           /\ (lastOp.audio > 0 /\ ~lastOp.done) =>
                  /\ lastOp.played = lastOp.audio
                  /\ PlayerHoldsAudio(player[audioPlayer])
                  /\ mode = "speaking"
           /\ (lastOp.audio = 0 /\ lastOp.done) =>
                  lastOp.played = 0 /\ mode = "idle"

\* a turnComplete message without audio handled while the player still holds
\* the audio of an earlier message
C11_Witness ==
    /\ lastOp.op = "onmessage" /\ pc[lastOp.k] = "returned" /\ ~ended
    /\ lastOp.audio = 0 /\ lastOp.done /\ mode = "idle"
    /\ \A j \in Calls \ {lastOp.k} : pc[j] = "new"
    /\ audioPlayer # 0 /\ PlayerHoldsAudio(player[audioPlayer])

\* C12: every endSession, also one whose session.close() throws, returns
\* with the capture and the player it referenced stopped, the three
\* references cleared, status 'disconnected' and mode 'idle'.
C12_EndSessionAlwaysCleans ==
    [][lastOp'.op = "endSession" =>
          /\ session' = 0 /\ audioCapture' = 0 /\ audioPlayer' = 0
          /\ status' = "disconnected" /\ mode' = "idle"
          /\ \A k \in Calls :
                 /\ k = audioCapture => ~MicOpen(k)' /\ ~CaptureEmits(k)'
                 /\ k = audioPlayer =>
                        /\ ~SinkOpen(k)'
                        /\ ~PlayerAccepts(player'[k])
                        /\ player'[k].queue = 0]_vars

\* endSession has returned after close() threw, with a capture and a player
\* that were running
C12_Witness ==
    /\ lastOp.op = "endSession" /\ lastOp.threw
    /\ \E k \in Calls : cap[k].halted /\ player[k].halted /\ pc[k] = "returned"

\* C13: once stop() has been called on the capture and the player of a
\* session that was running (endSession), the capture calls neither its data
\* callback nor its error callback again and the player starts no further
\* chunk.
C13_NothingAfterStop ==
    (ended /\ lastOp.k # 0 /\ pc[lastOp.k] = "returned") =>
        /\ lastOp.op \in {"onData", "onError"} => ~cap[lastOp.k].halted
        /\ lastOp.op = "playStart" => ~player[lastOp.k].halted

\* connections that are open
OpenConnections == {k \in Calls : conn[k] = "open"}

\* C14: under every sequence of registerVoiceSession, startRealtimeSession
\* and stopRealtimeSession at most one remote connection is open.
C14_OneConnectionOpen == Cardinality(OpenConnections) <= 1

\* the place of a status in idle -> connecting -> connected -> {disconnected,
\* error}
StatusRank(s) ==
    CASE s = "idle" -> 0
      [] s = "connecting" -> 1
      [] s = "connected" -> 2
      [] OTHER -> 3

\* C15: a step that is not a startSession never moves the status backwards
\* in idle -> connecting -> connected -> {disconnected, error}, and the status
\* becomes 'connected' only from 'connecting'.
C15_StatusMovesForward ==
    [][(status' # status /\ lastOp'.op # "startSession") =>
          /\ StatusRank(status') >= StatusRank(status)
          /\ status' = "connected" => status = "connecting"]_vars

\* C16: the onerror callback publishes status 'error' and changes nothing
\* else: the connection handle, the capture and the player with what they
\* hold, the connection and the turn mode are as before, so a chunk is
\* forwarded and a message played after it exactly as they were before it.
C16_OnErrorOnlyStatus ==
    [][lastOp'.op = "onerror" =>
          /\ status' = "error"
          /\ UNCHANGED <<session, audioCapture, audioPlayer, mode, conn, cap,
                         player, pc, tool, ended>>
          /\ \A k \in Calls :
                 /\ CaptureEmits(k)' = CaptureEmits(k)
                 /\ PlayerAccepts(player'[k]) = PlayerAccepts(player[k])]_vars

\* a chunk forwarded on the open connection of a web session whose status
\* is 'error': the transport reported an error and capture went on
C16_Witness ==
    /\ platform = "web"
    /\ lastOp.op = "onData" /\ lastOp.sent /\ lastOp.live
    /\ pc[lastOp.k] = "returned" /\ status = "error"

\* the sequences of a sequence, one after the other
RECURSIVE Flatten(_)
Flatten(ss) == IF ss = <<>> THEN <<>> ELSE Head(ss) \o Flatten(Tail(ss))

\* the 16-bit samples a receiver decodes from the i-th chunk handed to onData
Decoded(i) == base64PCM16ToInt16(chunker.sent[i])

\* the decoded samples of all chunks handed to onData, in the order of the calls
AllDecoded == Flatten([i \in DOMAIN chunker.sent |-> Decoded(i)])

\* C17: after any sequence of blocks, the i-th slice taken is the i-th run of
\* CHUNK_SIZE consecutive samples of what was fed, the buffer holds what
\* follows the last slice and is shorter than CHUNK_SIZE, and onData was
\* called once per slice, in order, with the encoding of that slice.
C17_SlicesFromFront ==
    LET n == CHUNK_SIZE(chunker.rate)
    IN  /\ \A i \in DOMAIN chunker.slices :
              /\ Len(chunker.slices[i]) = n
              /\ chunker.slices[i] = SubSeq(chunker.fed, (i - 1) * n + 1, i * n)
        /\ chunker.buffer = SubSeq(chunker.fed, Len(chunker.slices) * n + 1,
                                   Len(chunker.fed))
        /\ Len(chunker.buffer) < n
        /\ Len(chunker.sent) = Len(chunker.slices)
        /\ \A i \in DOMAIN chunker.sent :
              Decoded(i) =
                 [j \in 1..Len(resample(chunker.slices[i], chunker.rate,
                                        TARGET_SAMPLE_RATE)) |->
                     SampleToInt16(resample(chunker.slices[i], chunker.rate,
                                            TARGET_SAMPLE_RATE)[j])]

\* two chunks were handed over and a remainder waits in the buffer
C17_Witness ==
    /\ lastOp.op = "workletMessage"
    /\ Len(chunker.sent) >= 2 /\ Len(chunker.buffer) >= 1

\* C18: the decoded samples of the chunks handed to onData, one after the
\* other, are exactly the samples fed so far (those still waiting in the
\* buffer aside): as many, and each equal to the one fed.
C18_ExactReconstruction ==
    /\ Len(AllDecoded) = Len(chunker.fed) - Len(chunker.buffer)
    /\ \A j \in DOMAIN AllDecoded :
          j <= Len(chunker.fed) =>
             AllDecoded[j] * chunker.fed[j][2] = chunker.fed[j][1] * 32768

\* C18 amended: the slices handed over are what was fed, in order, without
\* its last fewer-than-CHUNK_SIZE samples; each chunk decodes to
\* floor(CHUNK_SIZE * target rate / native rate) samples; and at the target
\* rate every decoded sample is within 2 / 32768 of the sample fed, clamped to
\* [-1, 1].
C18_ReconstructsUpToEncoding ==
    LET n == CHUNK_SIZE(chunker.rate)
    IN  /\ Flatten(chunker.slices)
              = SubSeq(chunker.fed, 1, Len(chunker.fed) - Len(chunker.buffer))
        /\ Len(chunker.buffer) < n
        /\ \A i \in DOMAIN chunker.sent :
              Len(Decoded(i)) = (n * TARGET_SAMPLE_RATE) \div chunker.rate
        /\ chunker.rate = TARGET_SAMPLE_RATE =>
              \A j \in DOMAIN AllDecoded :
                 LET d == chunker.fed[j][2]
                     c == IF chunker.fed[j][1] > d THEN d
                          ELSE IF chunker.fed[j][1] < 0 - d THEN 0 - d
                          ELSE chunker.fed[j][1]
                     e == AllDecoded[j] * d - c * 32768
                 IN  e <= 2 * d /\ 0 - e <= 2 * d

\* at the target rate a chunk was handed over that holds a sample above full
\* scale and a sample that 16 bits do not represent exactly
C18_Witness ==
    /\ chunker.rate = TARGET_SAMPLE_RATE
    /\ \E j \in DOMAIN AllDecoded : chunker.fed[j][1] > chunker.fed[j][2]
    /\ \E j \in DOMAIN AllDecoded :
          AllDecoded[j] * chunker.fed[j][2] # chunker.fed[j][1] * 32768

\* C19: a capture whose poll tick failed has called the error callback once
\* at most, produces no more audio from then on, and was not handed a chunk
\* to its data callback after that.
C19_ErrorOnceThenStopped ==
    \A k \in Calls :
        /\ cap[k].errs <= 1
        /\ cap[k].errs > 0 => ~CaptureEmits(k)
        /\ (lastOp.op = "onData" /\ lastOp.k = k) => cap[k].errs = 0

\* C20: a capture start() in which acquiring the microphone failed has
\* rejected.
C20_MicFailureRejects ==
    \A k \in Calls : cap[k].micFailed => cap[k].pc = "rejected"

\* C21: every segment is handed to onData at most once and in the order the
\* segments were recorded, and at most one recorder is recording at any time,
\* whatever the timing of the poll ticks.
C21_SegmentsOnceInOrder ==
    /\ \A i, j \in DOMAIN recorder.emitted :
           i < j => recorder.emitted[i] < recorder.emitted[j]
    /\ Cardinality({r \in Recorders : recorder.rec[r] = "recording"}) <= 1

\* the samples of a rendered stream, silence left out
Audible(out) == SelectSeq(out, LAMBDA x : x # 0)

\* the samples posted and still on the port
OnPort == Flatten([i \in DOMAIN processor.port |->
                     Audible(processor.port[i])])

\* C22: a render period with an output of N samples writes the first N
\* pending samples and keeps the rest in order when at least N are pending,
\* and otherwise writes what is pending followed by zeros and keeps nothing;
\* as long as nothing was cleared, what has been rendered, what is pending and
\* what is still on the port are together the posted samples, each once and
\* in order.
C22_RenderFifoThenSilence ==
    [][lastOp'.op = "process" =>
          LET b == processor.buffer
              out == processor'.out
              N == Len(out)
          IN /\ N >= 1
             /\ Len(b) >= N =>
                    /\ out = SubSeq(b, 1, N)
                    /\ processor'.buffer = SubSeq(b, N + 1, Len(b))
             /\ Len(b) < N =>
                    /\ out = b \o Zeros(N - Len(b))
                    /\ processor'.buffer = <<>>
             /\ processor'.cleared = 0 =>
                    Audible(processor'.rendered) \o processor'.buffer \o OnPort'
                        = Numbered(0, processor'.posted)]_vars

\* a render period that left a remainder, after one that ran out of samples
C22_Witness ==
    /\ lastOp.op = "process"
    /\ processor.cleared = 0
    /\ processor.buffer # <<>>
    /\ \E i \in DOMAIN processor.rendered : processor.rendered[i] = 0
    /\ Audible(processor.rendered) # <<>>

\* C23: clear() empties the queue, silences the player and leaves it open,
\* and every chunk that starts playing afterwards was given to play() after
\* that clear().
C23_ClearDropsBacklog ==
    [][/\ lastOp'.op = "fpClear" =>
              /\ fileplayer'.queue = <<>>
              /\ fileplayer'.sounding = {}
              /\ fileplayer'.stopped = fileplayer.stopped
       /\ fileplayer'.order # fileplayer.order =>
              fileplayer'.order[Len(fileplayer'.order)] > fileplayer'.clearedAt]_vars

\* C24: stop() empties the queue, silences the player and marks it stopped;
\* a second stop() changes nothing; while the player stays stopped no chunk
\* starts playing and play() leaves the queue empty.
C24_StopIsFinal ==
    [][/\ lastOp'.op = "fpStop" =>
              /\ fileplayer'.stopped
              /\ fileplayer'.queue = <<>>
              /\ fileplayer'.sounding = {}
              /\ fileplayer.stopped => fileplayer' = fileplayer
       /\ (fileplayer.stopped /\ fileplayer'.stopped) =>
              /\ fileplayer'.order = fileplayer.order
              /\ fileplayer'.queue = <<>>]_vars

\* C25: at most one playNext body is in flight, at most one chunk sounds,
\* and chunks start playing in the order they were enqueued.
C25_OneBodyInOrder ==
    /\ Cardinality(Bodies \ FreeBodies(fileplayer)) <= 1
    /\ Cardinality(fileplayer.sounding) <= 1
    /\ \A i, j \in DOMAIN fileplayer.order :
           i < j => fileplayer.order[i] < fileplayer.order[j]

\* a second chunk has started playing after the first, all chunks have been
\* given to play(), a clear() has run and a playNext body is in flight
C25_Witness ==
    /\ Len(fileplayer.order) >= 2
    /\ fileplayer.enqueued = MaxChunks
    /\ Cardinality(Bodies \ FreeBodies(fileplayer)) = 1
    /\ fileplayer.clearedAt > 0

\* C26 as stated: the total-size field of the header is 44 plus the payload
\* length.
C26_TotalSizeIsHeaderPlusPayload ==
    (calc.fn = "createWavHeader" /\ calc.done) =>
        ReadLE32(calc.out, 4) = 44 + calc.n

\* C26: the header has 44 bytes, its RIFF size field is 36 plus the payload
\* length (the length of header and payload less the 8 bytes that precede the
\* field's scope) and its data size field is the payload length.
C26_RiffSizeIsFileLessEight ==
    (calc.fn = "createWavHeader" /\ calc.done) =>
        /\ Len(calc.out) = 44
        /\ \A i \in DOMAIN calc.out : calc.out[i] \in 0..255
        /\ ReadLE32(calc.out, 4) = Len(calc.out) + calc.n - 8
        /\ ReadLE32(calc.out, 40) = calc.n

\* a header for a payload whose length fills the fourth byte of the field
C26_Witness ==
    /\ calc.fn = "createWavHeader" /\ calc.done
    /\ calc.n > 65536 /\ calc.out[8] # 0

\* the exact length floor(len * b / a)
ExactLength(len, a, b) == (len * b) \div a

\* every position resample(x, a, b) reads lies inside x
ReadsInside(x, a, b, n) ==
    \A i \in 0..(n - 1) :
        /\ SrcLow(i, ResampleRatio(a, b)) \in 0..(Len(x) - 1)
        /\ SrcHigh(i, ResampleRatio(a, b), Len(x)) \in 0..(Len(x) - 1)

\* C27 as stated: resample(x, a, b) has exactly floor(len(x) * b / a)
\* samples, returns x for a = b, and reads only inside x.
C27_ExactLength ==
    (calc.fn = "resample" /\ calc.done) =>
        /\ Len(calc.out) = ExactLength(Len(calc.x), calc.a, calc.b)
        /\ calc.a = calc.b => calc.out = calc.x
        /\ calc.a # calc.b => ReadsInside(calc.x, calc.a, calc.b, Len(calc.out))

\* C27: resample(x, a, b) has floor(len(x) * b / a) samples or one less,
\* none for an empty x, returns x for a = b, reads only inside x and gives
\* a number for every output sample.
C27_LengthUpToRounding ==
    (calc.fn = "resample" /\ calc.done) =>
        /\ Len(calc.out) <= ExactLength(Len(calc.x), calc.a, calc.b)
        /\ Len(calc.out) >= ExactLength(Len(calc.x), calc.a, calc.b) - 1
        /\ calc.x = <<>> => calc.out = <<>>
        /\ calc.a = calc.b => calc.out = calc.x
        /\ calc.a # calc.b =>
               /\ ReadsInside(calc.x, calc.a, calc.b, Len(calc.out))
               /\ \A i \in DOMAIN calc.out : calc.out[i] # NaN

\* an input resampled to a higher rate whose last output sample reads the
\* last input sample twice (low + 1 is past the end)
C27_Witness ==
    /\ calc.fn = "resample" /\ calc.done
    /\ calc.a < calc.b /\ Len(calc.out) > Len(calc.x) /\ Len(calc.x) >= 2
    /\ SrcLow(Len(calc.out) - 1, ResampleRatio(calc.a, calc.b)) = Len(calc.x) - 1

\* the distance between a sample n / d and its decoded 16-bit value v / 32768,
\* in units of 1 / (32768 * d)
CodecError(s, v) ==
    IF v * s[2] >= s[1] * 32768 THEN v * s[2] - s[1] * 32768
    ELSE s[1] * 32768 - v * s[2]

StartSessionAgain(c) ==
    /\ ended
    /\ nCalls < MaxRegistryStarts
    /\ StartSessionRun(c)
    /\ UNCHANGED registry

\* messages that carry a toolCall and nothing else
ToolCallMessages ==
    { m \in Messages : m.toolCall /\ m.parts = <<>> /\ ~m.turnComplete }

\* A connected session that receives tool calls, is ended and is started
\* again while an executor may still be awaited.
NextReconnect ==
    \/ \E k \in Calls, m \in ToolCallMessages : OnMessage(k, m)
    \/ ToolResolve
    \/ ToolThrow
    \/ \E t \in BOOLEAN : EndSession(t)
    \/ \E c \in BOOLEAN : StartSessionAgain(c)
    \/ \E k \in Calls : PlayerStartResolve(k)
    \/ \E k \in Calls : WebGetUserMediaOk(k)
    \/ \E k \in Calls : WebAddModuleOk(k)
    \/ \E k \in Calls : NativeSetAudioModeOk(k)
    \/ \E k \in Calls : NativePrepareOk(k)
    \/ \E k \in Calls : ConnectOpen(k)
    \/ \E k \in Calls : ConnClose(k)

ReconnectSpec == InitConnected /\ [][NextReconnect]_vars

\* A connected session that receives tool calls only, and is ended.
NextToolCalls ==
    \/ \E m \in ToolCallMessages : OnMessage(1, m)
    \/ ToolResolve
    \/ ToolThrow
    \/ \E t \in BOOLEAN : EndSession(t)

ToolCallSpec == InitConnected /\ [][NextToolCalls]_vars

\* C29: a batch of tool results is sent only on the connection whose
\* onmessage delivered the tool calls it answers; results that arrive after
\* endSession, or after a new startSession, never go out on another connection.
C29_ResultsOnDeliveringConnection ==
    tool.sent = 1 => tool.sentOn = tool.from

\* the late results are dropped when the session was ended and not restarted
C29_DroppedWhenEnded ==
    [][(tool.state = "awaiting" /\ tool'.state = "done" /\ session = 0)
           => tool'.sent = 0]_vars

\* ------------------------------------------------ registry: idle and stopped

\* call k of startRealtimeSession is between its `await voiceSession
\* .startSession` and its return (stopRealtimeSession has one synchronous run)
StartInFlight(k) == pc[k] \notin {"new", "returned", "caught"}

\* the registered session holds a connection that is open
SessionConnectionOpen == session # 0 /\ conn[session] = "open"

\* the registered session holds a capture that has the microphone or emits
SessionCaptureRunning ==
    audioCapture # 0 /\ (MicOpen(audioCapture) \/ CaptureEmits(audioCapture))

\* C30: whenever no startRealtimeSession or stopRealtimeSession call is in
\* flight and isVoiceSessionStarted() is false, the registered session holds no
\* open remote connection and no running capture, also after a
\* stopRealtimeSession that ran while a start was awaiting startSession.
C30_NotStartedHoldsNothing ==
    ((\A k \in Calls : ~StartInFlight(k)) /\ ~registry.voiceSessionStarted)
        => (~SessionConnectionOpen /\ ~SessionCaptureRunning)

\* stopRealtimeSession itself leaves nothing held by the session
C30_StopReleases ==
    [][lastOp'.op = "endSession"
           => (~SessionConnectionOpen' /\ ~SessionCaptureRunning')]_vars

\* ------------------------------- registry taken alone (RealtimeSession.ts)
\* The registered VoiceSession is any implementation of the interface: its
\* startSession and endSession resolve or reject.

\* everything but the registry and the observation
registryRest == <<units, chunker, platform, apiKey, status, mode, session,
                  audioCapture, audioPlayer, nCalls, pc, ctx, conn, cap,
                  player, tool, ended>>

RegistryCall(fn, at, id) == [fn |-> fn, at |-> at, id |-> id, purchases |-> 0]

\* call i of the registry goes on to stand at `at`
MoveCall(r, i, at) == [r EXCEPT !.inflight[i].at = at]

\* the catch of startRealtimeSession
StartCatch(r, i) == MoveCall(ResetStarted(r), i, "caught")

\* startRealtimeSession(sessionId, initialContext): it returns at once without
\* a registered session, else it awaits requestMicrophonePermission()
StartRealtimeCall(id) ==
    /\ Len(registry.inflight) < MaxRegistryCalls
    /\ registry' = [registry EXCEPT !.inflight =
                       Append(@, RegistryCall("start",
                                     IF registry.voiceSession
                                     THEN "awaitPermission" ELSE "returned", id))]
    /\ lastOp' = [Op("startRealtimeSession") EXCEPT
                     !.k = Len(registry.inflight) + 1]
    /\ UNCHANGED registryRest

\* requestMicrophonePermission() resolves; the settings are read: the voice
\* engine, the key of the gemini engine, the agent id and the experiments flag
\* of the ElevenLabs engine
PermissionSettles(i, granted, engine, agentId, experimentsEnabled) ==
    /\ i \in DOMAIN registry.inflight
    /\ registry.inflight[i].at = "awaitPermission"
    /\ registry' =
          IF ~granted THEN MoveCall(registry, i, "returned")
          ELSE IF engine = "gemini"
          THEN IF ~apiKey
               THEN MoveCall(registry, i, "returned")
               ELSE MoveCall(SetStarted(registry, registry.inflight[i].id), i,
                             "awaitStartSession")
          ELSE IF ~agentId THEN MoveCall(registry, i, "returned")
          ELSE IF ~experimentsEnabled
          THEN MoveCall(SetStarted(registry, registry.inflight[i].id), i,
                        "awaitStartSession")
          ELSE MoveCall(registry, i, "awaitCredentials")
    /\ lastOp' = [Op("permission") EXCEPT !.k = i]
    /\ UNCHANGED registryRest

\* TokenStorage.getCredentials() settles: no credentials, credentials, a throw
CredentialsSettle(i, o) ==
    /\ i \in DOMAIN registry.inflight
    /\ registry.inflight[i].at = "awaitCredentials"
    /\ registry' = CASE o = "none" -> MoveCall(registry, i, "returned")
                     [] o = "ok" -> MoveCall(registry, i, "awaitToken")
                     [] o = "throws" -> StartCatch(registry, i)
    /\ lastOp' = [Op("credentials") EXCEPT !.k = i, !.threw = (o = "throws")]
    /\ UNCHANGED registryRest

\* fetchVoiceToken(credentials, sessionId) settles: allowed, not allowed, a
\* throw
VoiceTokenSettles(i, o) ==
    /\ i \in DOMAIN registry.inflight
    /\ registry.inflight[i].at = "awaitToken"
    /\ registry' = CASE o = "allowed" ->
                          MoveCall(SetStarted(registry, registry.inflight[i].id),
                                   i, "awaitStartSession")
                     [] o = "denied" -> MoveCall(registry, i, "awaitPaywall")
                     [] o = "throws" -> StartCatch(registry, i)
    /\ lastOp' = [Op("voiceToken") EXCEPT !.k = i, !.threw = (o = "throws")]
    /\ UNCHANGED registryRest

\* sync.presentPaywall() settles: after a purchase the call runs
\* startRealtimeSession again with its own arguments and returns with it
PaywallSettles(i, o) ==
    /\ i \in DOMAIN registry.inflight
    /\ registry.inflight[i].at = "awaitPaywall"
    /\ o = "purchased" => registry.inflight[i].purchases < MaxPurchases
    /\ registry' = CASE o = "purchased" ->
                          [registry EXCEPT
                              !.inflight[i].at = "awaitPermission",
                              !.inflight[i].purchases = @ + 1]
                     [] o = "declined" -> MoveCall(registry, i, "returned")
                     [] o = "throws" -> StartCatch(registry, i)
    /\ lastOp' = [Op("paywall") EXCEPT !.k = i, !.threw = (o = "throws")]
    /\ UNCHANGED registryRest

\* `await voiceSession.startSession(...)` settles
StartSessionSettles(i, ok) ==
    /\ i \in DOMAIN registry.inflight
    /\ registry.inflight[i].at = "awaitStartSession"
    /\ registry' = IF ok THEN MoveCall(registry, i, "returned")
                   ELSE StartCatch(registry, i)
    /\ lastOp' = [Op("startSessionSettles") EXCEPT !.k = i, !.threw = ~ok]
    /\ UNCHANGED registryRest

\* stopRealtimeSession(): it returns at once without a registered session,
\* else it awaits voiceSession.endSession()
StopRealtimeCall ==
    /\ Len(registry.inflight) < MaxRegistryCalls
    /\ registry' = [registry EXCEPT !.inflight =
                       Append(@, RegistryCall("stop",
                                     IF registry.voiceSession
                                     THEN "awaitEndSession" ELSE "returned",
                                     Null))]
    /\ lastOp' = [Op("stopRealtimeSession") EXCEPT
                     !.k = Len(registry.inflight) + 1]
    /\ UNCHANGED registryRest

\* `await voiceSession.endSession()` settles: the two assignments after it, or
\* the catch, which logs
EndSessionSettles(i, ok) ==
    /\ i \in DOMAIN registry.inflight
    /\ registry.inflight[i].at = "awaitEndSession"
    /\ registry' = IF ok THEN MoveCall(ResetStarted(registry), i, "returned")
                   ELSE MoveCall(registry, i, "caught")
    /\ lastOp' = [Op("endSessionSettles") EXCEPT !.k = i, !.threw = ~ok]
    /\ UNCHANGED registryRest

InitRegistryCalls == Init /\ platform = "web"

NextRegistryCalls ==
    \/ registerVoiceSession
    \/ \E id \in SessionIds : StartRealtimeCall(id)
    \/ \E i \in 1..MaxRegistryCalls, granted, agentId, experimentsEnabled \in BOOLEAN,
          engine \in {"gemini", "elevenlabs"} :
          PermissionSettles(i, granted, engine, agentId, experimentsEnabled)
    \/ \E i \in 1..MaxRegistryCalls, o \in {"none", "ok", "throws"} :
          CredentialsSettle(i, o)
    \/ \E i \in 1..MaxRegistryCalls, o \in {"allowed", "denied", "throws"} :
          VoiceTokenSettles(i, o)
    \/ \E i \in 1..MaxRegistryCalls, o \in {"purchased", "declined", "throws"} :
          PaywallSettles(i, o)
    \/ \E i \in 1..MaxRegistryCalls, ok \in BOOLEAN : StartSessionSettles(i, ok)
    \/ StopRealtimeCall
    \/ \E i \in 1..MaxRegistryCalls, ok \in BOOLEAN : EndSessionSettles(i, ok)

RegistryCallsSpec == InitRegistryCalls /\ [][NextRegistryCalls]_vars

\* isVoiceSessionStarted() and getCurrentRealtimeSessionId() !== null
StartedAndId(r) == <<r.voiceSessionStarted, r.currentSessionId>>

\* C31: in every state of the registry isVoiceSessionStarted() is true exactly
\* when getCurrentRealtimeSessionId() is non-null; a call that comes to await
\* startSession has set both, a startSession that throws and an endSession
\* that completes reset both, and a stopRealtimeSession whose endSession
\* throws leaves both as they were.
C31_StartedIffSessionId ==
    /\ registry.voiceSessionStarted <=> registry.currentSessionId # Null
    /\ [][/\ registry'.voiceSessionStarted <=> registry'.currentSessionId # Null
          /\ \A i \in DOMAIN registry.inflight :
                (/\ registry.inflight[i].at # "awaitStartSession"
                 /\ registry'.inflight[i].at = "awaitStartSession")
                    => StartedAndId(registry') = <<TRUE, registry.inflight[i].id>>
          /\ (lastOp'.op = "startSessionSettles" /\ lastOp'.threw)
                => StartedAndId(registry') = <<FALSE, Null>>
          /\ (lastOp'.op = "endSessionSettles" /\ ~lastOp'.threw)
                => StartedAndId(registry') = <<FALSE, Null>>
          /\ (lastOp'.op = "endSessionSettles" /\ lastOp'.threw)
                => StartedAndId(registry') = StartedAndId(registry)]_vars

\* an endSession has thrown while a call with the empty string as sessionId
\* is started and awaits startSession
C31_Witness ==
    /\ lastOp.op = "endSessionSettles" /\ lastOp.threw
    /\ registry.voiceSessionStarted
    /\ registry.currentSessionId = ""
    /\ \E i \in DOMAIN registry.inflight :
          /\ registry.inflight[i].at = "awaitStartSession"
          /\ registry.inflight[i].fn = "start"

\* C32: once endSession has returned, the published status stays
\* 'disconnected' and the turn stays 'idle' until the next startSession call;
\* no late transport callback, capture callback or tool-call completion of the
\* ended session changes them.
C32_EndedStaysDisconnectedIdle ==
    ended => (status = "disconnected" /\ mode = "idle")

\* endSession itself leaves 'disconnected' and 'idle'
C32_EndSessionPublishes ==
    [][lastOp'.op = "endSession"
           => (status' = "disconnected" /\ mode' = "idle")]_vars

\* player.play() has been called for chunk c
FpPlayed(c) == \E i \in DOMAIN fileplayer.order : fileplayer.order[i] = c

\* a playNext body of the native player is in flight
FpBodyInFlight == \E b \in Bodies : fileplayer.bodies[b].at # "free"

HasIdAndName(call) == call.id # 0 /\ call.name # ""

\* the calls with id and name among the first n calls, in the order of the list
Answerable(calls, n) == SelectSeq(SubSeq(calls, 1, n), HasIdAndName)

\* the <<id, name>> pairs of a sequence of calls or of results
IdsAndNames(s) == [j \in DOMAIN s |-> <<s[j].id, s[j].name>>]

\* C34: within one inbound message the executors are invoked one after
\* another in the order of the calls, the next one only after the previous one
\* has resolved, and the results of the batch are in the order of the calls,
\* calls without an id or a name being skipped without a result.
C34_ExecutorsInCallOrder ==
    tool.state # "none" =>
        /\ \A a, b \in DOMAIN tool.invoked :
              a < b => tool.invoked[a] < tool.invoked[b]
        /\ \A a \in DOMAIN tool.invoked :
              /\ HasIdAndName(tool.calls[tool.invoked[a]])
              /\ tool.calls[tool.invoked[a]].name \in KnownTools
        /\ \A a \in DOMAIN tool.invoked :
              (a < Len(tool.invoked) \/ tool.state = "done") =>
                  \E j \in DOMAIN tool.responses :
                      /\ tool.responses[j].id = tool.calls[tool.invoked[a]].id
                      /\ tool.responses[j].result
                            = ExecutorResult(tool.calls[tool.invoked[a]].name)
        /\ IdsAndNames(tool.responses)
              = IdsAndNames(Answerable(tool.calls, tool.i - 1))
        /\ tool.state = "done" => tool.i = Len(tool.calls) + 1

\* both calls of a message went to an executor and the batch was sent
C34_Witness ==
    /\ tool.state = "done"
    /\ tool.invoked = <<1, 2>>
    /\ Len(tool.responses) = 2
    /\ tool.sent = 1

====
